---- MODULE Spec2Model ----
(***************************************************************************)
(* Rent accrual and balance computation of the Jammu Shuttering Store      *)
(* billing programs: the web portal (src/main.py) and the desktop ledger   *)
(* (src/Jammu_Shuttering_Store.py), both working on one JSON file per      *)
(* customer.                                                               *)
(*                                                                         *)
(* Representation.  A calendar date is the number of its day; a JSON       *)
(* scalar that the code converts (a date string, a quantity, a rate, an    *)
(* amount) is a record [ok, v]: ok says that the conversion succeeds and   *)
(* v is the value it yields.  Money and quantities are integers.           *)
(***************************************************************************)
EXTENDS Integers, Sequences, FiniteSets, TLC

VARIABLES
    customer,            \* the customer's JSON file data/<customer_id>.json
    items,               \* RentalBillApp.items: <<name, rate>> pairs
    transactions,        \* RentalBillApp.transactions: [date, item, qty, rent]
    previous_balance,    \* RentalBillApp.previous_balance
    payment_received,    \* RentalBillApp.payment_received
    today,               \* the calendar day that dt.date.today() returns
    confirm_reject_all,  \* st.session_state.confirm_reject_all of the admin
    web_out,             \* last return of calculate_customer_balance
    totals_out,          \* last return of RentalBillApp.calculate_totals
    due_out,             \* last return of calculate_customer_due_from_data
    bill_out,            \* rent summary of the last create_pdf_bill
    ledger_window,       \* the payment ledger window of the desktop
    customer_run,        \* record held by a running customer portal script
    admin_run,           \* record held by a running admin portal script
    editing_item,        \* _editing_item_index and the tree row being edited
    sessions,            \* the files sessions/<session_id>.json, by session id
    clock,               \* what time.time() returns
    session_out          \* last call of get_session and its return

vars == <<customer, items, transactions, previous_balance, payment_received,
          today, confirm_reject_all, web_out, totals_out, due_out, bill_out,
          ledger_window, customer_run, admin_run, editing_item, sessions,
          clock, session_out>>

\* the item form of the desktop and the session files of the web portal
other == <<editing_item, sessions, clock, session_out>>

\* what the computations and the atomic web steps leave alone
aside == <<bill_out, ledger_window, customer_run, admin_run, other>>

-----------------------------------------------------------------------------
(* Bounds of the model and the values the inputs are drawn from.           *)

MaxTx == 3
MaxPay == 2

Dates == {1, 5}
Todays == {3, 9}
Qtys == {3, 2, -1, -2}
TxItems == {"Plate", "Jack"}
Amounts == {200, 500}
Balances == {0, 1000}

Num(n) == [ok |-> TRUE, v |-> n]

\* the rate tables of a customer: "Jack" is an unknown item under the first
RateTables == { << <<"Plate", Num(50)>> >>,
                << <<"Plate", Num(50)>>, <<"Jack", Num(30)>> >> }

-----------------------------------------------------------------------------
(* Helpers shared by the two programs.                                     *)

Max(a, b) == IF a >= b THEN a ELSE b

RECURSIVE SumSeq(_)
SumSeq(s) == IF s = <<>> THEN 0 ELSE Head(s) + SumSeq(Tail(s))

RECURSIVE SumOver(_, _)
SumOver(f, S) ==
    IF S = {} THEN 0
    ELSE LET x == CHOOSE y \in S : TRUE IN f[x] + SumOver(f, S \ {x})

\* as SafeFloat, but the stored value is used whatever float() says
SafeFloatUnchecked(value) == value.v

\* safe_float: None and non-numeric values give the default 0.0
SafeFloat(value) == IF value.ok THEN value.v ELSE 0

\* list.sort / sorted with key = the date: ascending and stable.  Insert puts
\* an element after every element whose key is not greater.
\* as Insert, but before the elements of an equal key: not stable
RECURSIVE InsertBeforeEqual(_, _)
InsertBeforeEqual(x, s) ==
    IF s = <<>> THEN <<x>>
    ELSE IF Head(s).date < x.date THEN <<Head(s)>> \o InsertBeforeEqual(x, Tail(s))
    ELSE <<x>> \o s

RECURSIVE Insert(_, _)
Insert(x, s) ==
    IF s = <<>> THEN <<x>>
    ELSE IF Head(s).date <= x.date THEN <<Head(s)>> \o Insert(x, Tail(s))
    ELSE <<x>> \o s

RECURSIVE SortByDate(_)
SortByDate(s) ==
    IF s = <<>> THEN <<>>
    ELSE Insert(s[Len(s)], SortByDate(SubSeq(s, 1, Len(s) - 1)))

\* the names of an item list, in order
Names(its) == { its[k][1] : k \in DOMAIN its }

-----------------------------------------------------------------------------
(* Web portal: calculate_customer_balance.                                 *)

\* the try/except loop over customer["transactions"]: a date that strptime
\* rejects skips the transaction
RECURSIVE ParseTransactions(_)
ParseTransactions(raw) ==
    IF raw = <<>> THEN <<>>
    ELSE LET tx == Head(raw) IN
         IF tx.date.ok
         THEN <<[date |-> tx.date.v, item |-> tx.item, qty |-> SafeFloat(tx.qty)]>>
              \o ParseTransactions(Tail(raw))
         ELSE ParseTransactions(Tail(raw))

\* the dict comprehension item_daily_rents: a later entry of the same name
\* replaces an earlier one
ItemDailyRents(its) ==
    [n \in Names(its) |->
        LET k == CHOOSE j \in DOMAIN its :
                    /\ its[j][1] = n
                    /\ \A m \in DOMAIN its : its[m][1] = n => m <= j
        IN SafeFloat(its[k][2])]

\* as SpanRent, but a negative count pays as well
SpanRentSigned(days, counts, rents) ==
    SumOver([n \in DOMAIN counts |->
                IF n \in DOMAIN rents
                THEN days * counts[n] * rents[n] ELSE 0],
            DOMAIN counts)

\* rent of one span: every item with a positive count pays days * count * rate
SpanRent(days, counts, rents) ==
    SumOver([n \in DOMAIN counts |->
                IF counts[n] > 0 /\ n \in DOMAIN rents
                THEN days * counts[n] * rents[n] ELSE 0],
            DOMAIN counts)

\* the for loop over parsed_transactions, from index i on
RECURSIVE WebLoop(_, _, _, _, _, _)
WebLoop(parsed, i, rents, counts, last, total) ==
    IF i > Len(parsed) THEN [counts |-> counts, last |-> last, total |-> total]
    ELSE LET tx == parsed[i]
             days_diff == tx.date - last
             accrued == IF i > 1 /\ days_diff > 0
                        THEN SpanRent(days_diff, counts, rents) ELSE 0
             counts2 == IF tx.item \in DOMAIN rents
                        THEN [counts EXCEPT ![tx.item] = @ + tx.qty]
                        ELSE counts
         IN WebLoop(parsed, i + 1, rents, counts2, tx.date, total + accrued)

\* as ApprovedPaymentsSum, but a pending payment counts as well
ApprovedOrPendingSum(history) ==
    SumSeq([k \in DOMAIN history |->
              IF history[k].status \in {"approved", "pending"}
              THEN SafeFloat(history[k].amount) ELSE 0])

ApprovedPaymentsSum(history) ==
    SumSeq([k \in DOMAIN history |->
              IF history[k].status = "approved"
              THEN SafeFloat(history[k].amount) ELSE 0])

\* as FinalBalance, but floored at zero
FinalBalanceFloored(initial, accrued, approved) ==
    Max(initial + accrued - approved, 0)

\* final_balance of calculate_customer_balance
FinalBalance(initial, accrued, approved) == initial + accrued - approved

\* as CalculateCustomerBalance, but the span from the last event to today is
\* charged whatever its sign
CalculateCustomerBalanceAnyTail(c, now) ==
    LET previous_balance_initial == SafeFloat(c.previous_balance)
        parsed_transactions == SortByDate(ParseTransactions(c.transactions))
        item_daily_rents == ItemDailyRents(c.items)
        approved_payments_sum == ApprovedPaymentsSum(c.payment_history)
    IN IF parsed_transactions = <<>>
       THEN [done |-> TRUE,
             balance |-> previous_balance_initial - approved_payments_sum,
             rent |-> 0,
             replayed |-> <<>>,
             held |-> <<>>]
       ELSE LET loop == WebLoop(parsed_transactions, 1, item_daily_rents,
                                [n \in DOMAIN item_daily_rents |-> 0], 0, 0)
                total_rent_accrued ==
                    loop.total + SpanRent(now - loop.last, loop.counts,
                                          item_daily_rents)
            IN [done |-> TRUE,
                balance |-> FinalBalance(previous_balance_initial,
                                         total_rent_accrued,
                                         approved_payments_sum),
                rent |-> total_rent_accrued,
                replayed |-> parsed_transactions,
                held |-> loop.counts]

\* The return value (balance) with the locals it is computed from.
CalculateCustomerBalance(c, now) ==
    LET previous_balance_initial == SafeFloat(c.previous_balance)
        parsed_transactions == SortByDate(ParseTransactions(c.transactions))
        item_daily_rents == ItemDailyRents(c.items)
        approved_payments_sum == ApprovedPaymentsSum(c.payment_history)
    IN IF parsed_transactions = <<>>
       THEN [done |-> TRUE,
             balance |-> previous_balance_initial - approved_payments_sum,
             rent |-> 0,
             replayed |-> <<>>,
             held |-> <<>>]
       ELSE LET loop == WebLoop(parsed_transactions, 1, item_daily_rents,
                                [n \in DOMAIN item_daily_rents |-> 0], 0, 0)
                days_since_last_tx == now - loop.last
                total_rent_accrued ==
                    loop.total + (IF days_since_last_tx > 0
                                  THEN SpanRent(days_since_last_tx, loop.counts,
                                                item_daily_rents)
                                  ELSE 0)
            IN [done |-> TRUE,
                balance |-> FinalBalance(previous_balance_initial,
                                         total_rent_accrued,
                                         approved_payments_sum),
                rent |-> total_rent_accrued,
                replayed |-> parsed_transactions,
                held |-> loop.counts]

-----------------------------------------------------------------------------
(* Desktop ledger: calculate_totals and calculate_customer_due_from_data.  *)

\* a JSON number used as it is stored, without safe_float
Raw(value) == value.v

\* next((i[1] for i in items if i[0] == item), 0): the first entry of the
\* name, 0 when there is none
RentPrice(its, name) ==
    IF name \in Names(its)
    THEN LET k == CHOOSE j \in DOMAIN its :
                     /\ its[j][1] = name
                     /\ \A m \in DOMAIN its : its[m][1] = name => j <= m
         IN its[k][2]
    ELSE 0

\* as DesktopLoop, but an item held in negative quantity is charged as well
RECURSIVE DesktopLoopSigned(_, _, _, _, _)
DesktopLoopSigned(sorted_trans, i, its, current_items, item_rents) ==
    IF i > Len(sorted_trans)
    THEN [current_items |-> current_items, item_rents |-> item_rents]
    ELSE LET tx == sorted_trans[i] IN
         IF tx.item \notin DOMAIN current_items
         THEN DesktopLoopSigned(sorted_trans, i + 1, its, current_items,
                                item_rents)
         ELSE LET counts2 == [current_items EXCEPT ![tx.item] = @ + tx.qty]
                  days == IF i < Len(sorted_trans)
                          THEN sorted_trans[i + 1].date - tx.date ELSE 0
                  rents2 == [n \in DOMAIN item_rents |->
                               item_rents[n]
                               + days * counts2[n] * RentPrice(its, n)]
              IN DesktopLoopSigned(sorted_trans, i + 1, its, counts2, rents2)

\* as DesktopLoop, but the span after an event is charged on the quantities
\* held before the event
RECURSIVE DesktopLoopChargeBefore(_, _, _, _, _)
DesktopLoopChargeBefore(sorted_trans, i, its, current_items, item_rents) ==
    IF i > Len(sorted_trans)
    THEN [current_items |-> current_items, item_rents |-> item_rents]
    ELSE LET tx == sorted_trans[i] IN
         IF tx.item \notin DOMAIN current_items
         THEN DesktopLoopChargeBefore(sorted_trans, i + 1, its, current_items,
                                      item_rents)
         ELSE LET counts2 == [current_items EXCEPT ![tx.item] = @ + tx.qty]
                  days == IF i < Len(sorted_trans)
                          THEN sorted_trans[i + 1].date - tx.date ELSE 0
                  rents2 == [n \in DOMAIN item_rents |->
                               item_rents[n] +
                               (IF current_items[n] > 0
                                THEN days * current_items[n] * RentPrice(its, n)
                                ELSE 0)]
              IN DesktopLoopChargeBefore(sorted_trans, i + 1, its, counts2, rents2)

\* the for loop over sorted_trans, from index i on.  item_rents holds 0 for
\* an item the code has not entered into its dict yet.
RECURSIVE DesktopLoop(_, _, _, _, _)
DesktopLoop(sorted_trans, i, its, current_items, item_rents) ==
    IF i > Len(sorted_trans)
    THEN [current_items |-> current_items, item_rents |-> item_rents]
    ELSE LET tx == sorted_trans[i] IN
         IF tx.item \notin DOMAIN current_items
         THEN DesktopLoop(sorted_trans, i + 1, its, current_items, item_rents)
         ELSE LET counts2 == [current_items EXCEPT ![tx.item] = @ + tx.qty]
                  days == IF i < Len(sorted_trans)
                          THEN sorted_trans[i + 1].date - tx.date ELSE 0
                  rents2 == IF i < Len(sorted_trans)
                            THEN [n \in DOMAIN item_rents |->
                                    item_rents[n] +
                                    (IF counts2[n] > 0
                                     THEN days * counts2[n] * RentPrice(its, n)
                                     ELSE 0)]
                            ELSE item_rents
              IN DesktopLoop(sorted_trans, i + 1, its, counts2, rents2)

\* total_rent with the locals it is computed from, for an item list and an
\* already parsed transaction list (the body both desktop functions share)
ClosedLedger(its, trans) ==
    LET sorted_trans == SortByDate(trans)
        zero == [n \in Names(its) |-> 0]
        loop == DesktopLoop(sorted_trans, 1, its, zero, zero)
    IN [total_rent |-> SumOver(loop.item_rents, DOMAIN loop.item_rents),
        replayed |-> sorted_trans,
        held |-> loop.current_items]

\* as CalculateTotals, but without the payment when there is no transaction
CalculateTotalsEmptyUnpaid(its, trans, prev, paid) ==
    IF trans = <<>>
    THEN [done |-> TRUE, total_rent |-> 0, previous_balance |-> prev,
          payment_received |-> paid, grand_total |-> prev,
          replayed |-> <<>>, held |-> <<>>]
    ELSE LET ledger == ClosedLedger(its, trans) IN
         [done |-> TRUE, total_rent |-> ledger.total_rent,
          previous_balance |-> prev, payment_received |-> paid,
          grand_total |-> ledger.total_rent + prev - paid,
          replayed |-> ledger.replayed, held |-> ledger.held]

\* RentalBillApp.calculate_totals on the fields of the application

CalculateTotals(its, trans, prev, paid) ==
    IF trans = <<>>
    THEN [done |-> TRUE, total_rent |-> 0, previous_balance |-> prev,
          payment_received |-> paid, grand_total |-> prev - paid,
          replayed |-> <<>>, held |-> <<>>]
    ELSE LET ledger == ClosedLedger(its, trans) IN
         [done |-> TRUE, total_rent |-> ledger.total_rent,
          previous_balance |-> prev, payment_received |-> paid,
          grand_total |-> ledger.total_rent + prev - paid,
          replayed |-> ledger.replayed, held |-> ledger.held]

\* the items of a record as the desktop reads them: rates as stored
RawItems(its) == [k \in DOMAIN its |-> <<its[k][1], Raw(its[k][2])>>]

\* the try/except loop of calculate_customer_due_from_data: a date that
\* strptime rejects skips the transaction, quantities are used as stored
RECURSIVE DueTransactions(_)
DueTransactions(raw) ==
    IF raw = <<>> THEN <<>>
    ELSE LET tx == Head(raw) IN
         IF tx.date.ok
         THEN <<[date |-> tx.date.v, item |-> tx.item, qty |-> Raw(tx.qty),
                 rent |-> Raw(tx.rent)]>>
              \o DueTransactions(Tail(raw))
         ELSE DueTransactions(Tail(raw))

\* tx["rent"] of that loop raises KeyError, which the loop does not catch,
\* for a well-dated transaction without the key
RentKeyMissing(raw) == \E k \in DOMAIN raw : raw[k].date.ok /\ ~raw[k].rent.ok

\* the first entry of the name in a stored item list holds a number
RateReadable(its, name) ==
    LET k == CHOOSE j \in DOMAIN its :
                /\ its[j][1] = name
                /\ \A m \in DOMAIN its : its[m][1] = name => j <= m
    IN its[k][2].ok

\* rent_amount = days * count * item_rent_price and the addition to
\* item_rents raise TypeError when the rate of an item that is charged is
\* not a number
RECURSIVE RentAmountRaises(_, _, _, _)
RentAmountRaises(sorted_trans, i, its, current_items) ==
    IF i > Len(sorted_trans) THEN FALSE
    ELSE LET tx == sorted_trans[i] IN
         IF tx.item \notin DOMAIN current_items
         THEN RentAmountRaises(sorted_trans, i + 1, its, current_items)
         ELSE LET counts2 == [current_items EXCEPT ![tx.item] = @ + tx.qty] IN
              \/ /\ i < Len(sorted_trans)
                 /\ \E n \in DOMAIN counts2 :
                       counts2[n] > 0 /\ ~RateReadable(its, n)
              \/ RentAmountRaises(sorted_trans, i + 1, its, counts2)

\* calculate_customer_due_from_data ends with an exception
DueRaises(customer_data) ==
    \/ RentKeyMissing(customer_data.transactions)
    \/ RentAmountRaises(SortByDate(DueTransactions(customer_data.transactions)),
                        1, customer_data.items,
                        [n \in Names(customer_data.items) |-> 0])

\* what the caller is left with when the function raises
DueFailed == [done |-> TRUE, failed |-> TRUE, total_rent |-> 0, due |-> 0]

\* as CalculateCustomerDueFromData, but the due is the signed grand total
CalculateCustomerDueSigned(customer_data) ==
    LET trans == DueTransactions(customer_data.transactions)
        prev == Raw(customer_data.previous_balance)
        paid == Raw(customer_data.payment_received)
    IN IF DueRaises(customer_data) THEN DueFailed
       ELSE IF trans = <<>>
       THEN [done |-> TRUE, failed |-> FALSE, total_rent |-> 0,
             due |-> prev - paid]
       ELSE LET closed == ClosedLedger(RawItems(customer_data.items), trans) IN
            [done |-> TRUE, failed |-> FALSE, total_rent |-> closed.total_rent,
             due |-> closed.total_rent + prev - paid]

\* RentalBillApp.calculate_customer_due_from_data on a stored record
CalculateCustomerDueFromData(customer_data) ==
    LET trans == DueTransactions(customer_data.transactions)
        prev == Raw(customer_data.previous_balance)
        paid == Raw(customer_data.payment_received)
    IN IF DueRaises(customer_data) THEN DueFailed
       ELSE IF trans = <<>>
       THEN [done |-> TRUE, failed |-> FALSE, total_rent |-> 0,
             due |-> Max(prev - paid, 0)]
       ELSE LET ledger == ClosedLedger(RawItems(customer_data.items), trans) IN
            [done |-> TRUE, failed |-> FALSE, total_rent |-> ledger.total_rent,
             due |-> Max(ledger.total_rent + prev - paid, 0)]

\* load_customer_data: the transactions are read up to the first date that
\* strptime rejects or the first transaction without the key "rent" (the
\* exception ends the load)
RECURSIVE LoadTransactions(_)
LoadTransactions(raw) ==
    IF raw = <<>> \/ ~Head(raw).date.ok \/ ~Head(raw).rent.ok THEN <<>>
    ELSE <<[date |-> Head(raw).date.v, item |-> Head(raw).item,
            qty |-> Raw(Head(raw).qty), rent |-> Raw(Head(raw).rent)]>>
         \o LoadTransactions(Tail(raw))

-----------------------------------------------------------------------------
(* The state before any computation, and the computations as actions.      *)

NoWeb == [done |-> FALSE, balance |-> 0, rent |-> 0, replayed |-> <<>>,
          held |-> <<>>]
NoTotals == [done |-> FALSE, total_rent |-> 0, previous_balance |-> 0,
             payment_received |-> 0, grand_total |-> 0, replayed |-> <<>>,
             held |-> <<>>]
NoDue == [done |-> FALSE, failed |-> FALSE, total_rent |-> 0, due |-> 0]

NoBill == [done |-> FALSE, failed |-> FALSE, total_rent |-> 0, rows |-> <<>>,
           start_date |-> 0, end_date |-> 0]
NoLedger == [open |-> FALSE, current_due_amount |-> 0, payment_tree |-> <<>>,
             payment_amount_entry |-> 0]
NoRun == [running |-> FALSE]
NoEdit == [index |-> 0, row |-> 0]
NoFile == [exists |-> FALSE, last_accessed |-> 0]
NoSession == [called |-> FALSE, session_id |-> 0, at |-> 0, was |-> NoFile,
              found |-> FALSE, last_accessed |-> 0]

\* no bill made, the ledger window closed, no web script running, no item
\* being edited, no session file
Idle ==
    /\ bill_out = NoBill
    /\ ledger_window = NoLedger
    /\ customer_run = NoRun
    /\ admin_run = NoRun
    /\ editing_item = NoEdit
    /\ sessions = <<>>
    /\ clock = 0
    /\ session_out = NoSession

\* item_rent of add_transaction: the rate the item had when the event was
\* recorded
RecordedRent(i) == IF i = "Plate" THEN 50 ELSE 30

\* a transaction as save_customer_data writes it
Tx(d, i, q) == [date |-> Num(d), item |-> i, qty |-> Num(q),
                rent |-> Num(RecordedRent(i))]

\* the key "rent" is absent
NoRent == [ok |-> FALSE, v |-> 0]

\* a transaction as the "Record Transaction" form of the web portal writes
\* it: date, item and qty
WebTx(d, i, q) == [date |-> Num(d), item |-> i, qty |-> Num(q), rent |-> NoRent]

TxLogs == UNION { [1..n -> { Tx(d, i, q) : d \in Dates, i \in TxItems,
                                           q \in Qtys }] : n \in 0..MaxTx }

\* self.transactions after load_customer_data: refresh_transaction_tree
\* sorts the list when the loop has read every transaction
LoadedTransactions(raw) ==
    IF \A k \in DOMAIN raw : raw[k].date.ok /\ raw[k].rent.ok
    THEN SortByDate(LoadTransactions(raw))
    ELSE LoadTransactions(raw)

\* the desktop application after load_customer_data of the customer's file
Loaded ==
    /\ items = RawItems(customer.items)
    /\ transactions = LoadedTransactions(customer.transactions)
    /\ previous_balance = Raw(customer.previous_balance)
    /\ payment_received = Raw(customer.payment_received)

InitRent ==
    /\ customer \in [previous_balance : {Num(0)},
                     payment_received : {Num(0)},
                     items : RateTables,
                     transactions : TxLogs,
                     payment_history : {<<>>}]
    /\ Loaded
    /\ today \in Todays
    /\ confirm_reject_all = FALSE
    /\ web_out = NoWeb
    /\ totals_out = NoTotals
    /\ due_out = NoDue
    /\ Idle

\* a page of the web portal computes the customer's balance
WebBalance ==
    /\ ~web_out.done
    /\ web_out' = CalculateCustomerBalance(customer, today)
    /\ UNCHANGED <<customer, items, transactions, previous_balance,
                   payment_received, today, confirm_reject_all, totals_out,
                   due_out,
                   aside>>

\* the desktop application computes the totals of the bill
DesktopTotals ==
    /\ ~totals_out.done
    /\ totals_out' = CalculateTotals(items, transactions, previous_balance,
                                     payment_received)
    /\ UNCHANGED <<customer, items, transactions, previous_balance,
                   payment_received, today, confirm_reject_all, web_out,
                   due_out,
                   aside>>

\* the desktop dashboard computes the due of the stored record
DesktopDue ==
    /\ ~due_out.done
    /\ due_out' = CalculateCustomerDueFromData(customer)
    /\ UNCHANGED <<customer, items, transactions, previous_balance,
                   payment_received, today, confirm_reject_all, web_out,
                   totals_out,
                   aside>>

NextCalc == WebBalance \/ DesktopTotals \/ DesktopDue

SpecRent == InitRent /\ [][NextCalc]_vars

-----------------------------------------------------------------------------
(* Balances with payments: the records the computations are applied to.    *)

Statuses == {"approved", "pending", "rejected", "absent"}
Paid == {0, 700, 1500}

\* a payment of the history; status "absent" is a payment without the key
Payment(i, a, st) == [id |-> i, amount |-> Num(a), status |-> st]

PayHistories ==
    UNION { { [k \in 1..n |-> Payment(k, f[k][1], f[k][2])] :
                f \in [1..n -> Amounts \X Statuses] } : n \in 0..MaxPay }

BothItems == << <<"Plate", Num(50)>>, <<"Jack", Num(30)>> >>

\* no transaction; one rental returned; two items of which one stays held
SampleLogs == { <<>>,
                <<Tx(1, "Plate", 2), Tx(5, "Plate", -2)>>,
                <<Tx(1, "Plate", 3), Tx(5, "Jack", 2), Tx(5, "Plate", -1)>> }

InitBal ==
    /\ customer \in [previous_balance : { Num(b) : b \in Balances },
                     payment_received : { Num(r) : r \in Paid },
                     items : {BothItems},
                     transactions : SampleLogs,
                     payment_history : PayHistories]
    /\ Loaded
    /\ today \in Todays
    /\ confirm_reject_all = FALSE
    /\ web_out = NoWeb
    /\ totals_out = NoTotals
    /\ due_out = NoDue
    /\ Idle

SpecBal == InitBal /\ [][NextCalc]_vars

-----------------------------------------------------------------------------
(* Web portal: the payment workflow on the customer's file.                *)

\* save_customer_data of main.py: previous_balance is normalised by
\* safe_float, then the record is written
WebSave(c) == [c EXCEPT !.previous_balance = Num(SafeFloat(@))]

PendingIn(history) == { k \in DOMAIN history : history[k].status = "pending" }

SetStatus(history, S, st) ==
    [k \in DOMAIN history |->
        IF k \in S THEN [history[k] EXCEPT !.status = st] ELSE history[k]]

\* the customer submits the payment form: the record is read from the file,
\* the payment is appended as pending and the record is saved
SubmitPaymentApproved(amount) ==
    /\ amount > 0
    /\ Len(customer.payment_history) < MaxPay
    /\ customer' = WebSave([customer EXCEPT !.payment_history =
                      Append(@, Payment(Len(@) + 1, amount, "approved"))])
    /\ UNCHANGED <<items, transactions, previous_balance, payment_received,
                   today, confirm_reject_all, web_out, totals_out, due_out,
                   aside>>

SubmitPayment(amount) ==
    /\ amount > 0
    /\ Len(customer.payment_history) < MaxPay
    /\ customer' = WebSave([customer EXCEPT !.payment_history =
                      Append(@, Payment(Len(@) + 1, amount, "pending"))])
    /\ UNCHANGED <<items, transactions, previous_balance, payment_received,
                   today, confirm_reject_all, web_out, totals_out, due_out,
                   aside>>

\* the admin presses the approve button of one pending payment
ApprovePayment(k) ==
    /\ k \in PendingIn(customer.payment_history)
    /\ customer' = WebSave([customer EXCEPT !.payment_history =
                               SetStatus(@, {k}, "approved")])
    /\ UNCHANGED <<items, transactions, previous_balance, payment_received,
                   today, confirm_reject_all, web_out, totals_out, due_out,
                   aside>>

\* the admin presses the reject button of one pending payment
RejectPayment(k) ==
    /\ k \in PendingIn(customer.payment_history)
    /\ customer' = WebSave([customer EXCEPT !.payment_history =
                               SetStatus(@, {k}, "rejected")])
    /\ UNCHANGED <<items, transactions, previous_balance, payment_received,
                   today, confirm_reject_all, web_out, totals_out, due_out,
                   aside>>

\* as ApproveAll, but over every payment of the history
ApproveAllOfAnyStatus ==
    /\ PendingIn(customer.payment_history) # {}
    /\ customer' = WebSave([customer EXCEPT !.payment_history =
                               SetStatus(@, DOMAIN @, "approved")])
    /\ UNCHANGED <<items, transactions, previous_balance, payment_received,
                   today, confirm_reject_all, web_out, totals_out, due_out,
                   aside>>

\* "Approve All Payments": shown while a payment is pending, approves every
\* pending payment
ApproveAll ==
    /\ PendingIn(customer.payment_history) # {}
    /\ customer' = WebSave([customer EXCEPT !.payment_history =
                               SetStatus(@, PendingIn(@), "approved")])
    /\ UNCHANGED <<items, transactions, previous_balance, payment_received,
                   today, confirm_reject_all, web_out, totals_out, due_out,
                   aside>>

\* "Reject All Payments": the first press asks for confirmation, a press with
\* the confirmation set rejects every pending payment; st.rerun() then ends
\* the script before the confirmation is reset
RejectAll ==
    /\ PendingIn(customer.payment_history) # {}
    /\ IF confirm_reject_all
       THEN customer' = WebSave([customer EXCEPT !.payment_history =
                                    SetStatus(@, PendingIn(@), "rejected")])
       ELSE customer' = customer
    /\ confirm_reject_all' = TRUE
    /\ UNCHANGED <<items, transactions, previous_balance, payment_received,
                   today, web_out, totals_out, due_out,
                   aside>>

InitPay ==
    /\ customer \in [previous_balance : { Num(b) : b \in Balances },
                     payment_received : {Num(0)},
                     items : {BothItems},
                     transactions : SampleLogs,
                     payment_history : {<<>>}]
    /\ Loaded
    /\ today \in Todays
    /\ confirm_reject_all = FALSE
    /\ web_out = NoWeb
    /\ totals_out = NoTotals
    /\ due_out = NoDue
    /\ Idle

NextPay ==
    \/ \E amount \in Amounts : SubmitPayment(amount)
    \/ \E k \in 1..MaxPay : ApprovePayment(k)
    \/ \E k \in 1..MaxPay : RejectPayment(k)
    \/ ApproveAll
    \/ RejectAll

SpecPay == InitPay /\ [][NextPay]_vars

-----------------------------------------------------------------------------
(* What the claims speak of, stated without the replay loops.              *)

RemoveAt(s, k) == SubSeq(s, 1, k - 1) \o SubSeq(s, k + 1, Len(s))

\* the daily rate a rate table gives an item of the table
RateOf(its, name) ==
    LET k == CHOOSE j \in DOMAIN its : its[j][1] = name IN its[k][2].v

\* the sum of the quantities of an item in the events dated up to day t
RECURSIVE NetQty(_, _, _)
NetQty(log, name, t) ==
    IF log = <<>> THEN 0
    ELSE (IF Head(log).item = name /\ Head(log).date.v <= t
          THEN Head(log).qty.v ELSE 0) + NetQty(Tail(log), name, t)

LogDates(log) == { log[k].date.v : k \in DOMAIN log }
FirstDate(log) == CHOOSE d \in LogDates(log) : \A e \in LogDates(log) : d <= e
LastDate(log) == CHOOSE d \in LogDates(log) : \A e \in LogDates(log) : e <= d

\* what is held of an item after the whole log
HeldAtEnd(log, name) == NetQty(log, name, LastDate(log))

UnknownAt(c, k) == c.transactions[k].item \notin Names(c.items)

\* the events of day d, in recorded order
OnDay(log, d) ==
    LET Test(tx) == tx.date = d IN SelectSeq(log, Test)

\* ascending by date, and the events of each day in the order of the input
StablySorted(out, input) ==
    /\ Len(out) = Len(input)
    /\ \A k \in 1..(Len(out) - 1) : out[k].date <= out[k + 1].date
    /\ \A d \in { input[k].date : k \in DOMAIN input } :
          OnDay(out, d) = OnDay(input, d)

\* C2: a transaction whose item is absent from the item list never changes
\* accrued rent: the rent computed with the event equals the rent computed
\* with the event removed, in calculate_customer_balance, calculate_totals
\* and calculate_customer_due_from_data.
C2_UnknownItemChangesNothing ==
    \A k \in DOMAIN customer.transactions :
        UnknownAt(customer, k) =>
            LET without == [customer EXCEPT !.transactions = RemoveAt(@, k)] IN
            /\ web_out.done =>
                 web_out.rent = CalculateCustomerBalance(without, today).rent
            /\ totals_out.done =>
                 totals_out.total_rent =
                    CalculateTotals(items, RemoveAt(transactions, k),
                                    previous_balance, payment_received).total_rent
            /\ due_out.done =>
                 due_out.total_rent = CalculateCustomerDueFromData(without).total_rent

\* C3: transactions are replayed in ascending date order and the events of
\* one day in the order they were recorded; rent 3 then return 1 of one item
\* on one day leave 2 held for the interval that follows.
C3_ReplayInStableDateOrder ==
    /\ web_out.done =>
         /\ StablySorted(web_out.replayed, ParseTransactions(customer.transactions))
         /\ \A d \in Dates, n \in Names(customer.items) :
               customer.transactions = <<Tx(d, n, 3), Tx(d, n, -1)>> =>
                  /\ web_out.held[n] = 2
                  /\ web_out.rent = Max(today - d, 0) * 2 * RateOf(customer.items, n)
    /\ totals_out.done =>
         /\ StablySorted(totals_out.replayed, transactions)
         /\ \A k \in DOMAIN customer.transactions :
            \A d \in Dates, n \in Names(customer.items) :
               /\ RemoveAt(customer.transactions, k) = <<Tx(d, n, 3), Tx(d, n, -1)>>
               /\ customer.transactions[k].date.v > d
               => totals_out.total_rent =
                    (customer.transactions[k].date.v - d) * 2
                    * RateOf(customer.items, n)

\* C3 witness: a log recorded out of date order, with rent 3 and return 1 on
\* day 1, has been replayed by both programs.
C3_Witness ==
    /\ customer.transactions =
          <<Tx(5, "Plate", -2), Tx(1, "Plate", 3), Tx(1, "Plate", -1)>>
    /\ web_out.done /\ totals_out.done
    /\ totals_out.total_rent = 400

AllReturned(c) ==
    \A n \in Names(c.items) : HeldAtEnd(c.transactions, n) = 0

\* the rent of the span from the last event to today, of the items then held
OpenSpanRent(c, now) ==
    SumOver([n \in Names(c.items) |->
                IF HeldAtEnd(c.transactions, n) > 0
                THEN (now - LastDate(c.transactions))
                     * HeldAtEnd(c.transactions, n) * RateOf(c.items, n)
                ELSE 0],
            Names(c.items))

\* C8: for a log in which every item is fully returned before the as-of date,
\* the total_rent of calculate_totals and the rent accrued inside
\* calculate_customer_balance are identical.
C8_ClosedEqualsLiveWhenReturned ==
    ( /\ web_out.done /\ totals_out.done
      /\ customer.transactions # <<>>
      /\ AllReturned(customer)
      /\ LastDate(customer.transactions) <= today )
    => web_out.rent = totals_out.total_rent

\* C9: for a log in which an item is still held at the as-of date, the rent
\* of calculate_customer_balance exceeds the total_rent of calculate_totals
\* by exactly (as-of date - date of the last event) * held quantity * daily
\* rate, summed over the items still held.
C9_LiveExceedsClosedByOpenSpan ==
    ( /\ web_out.done /\ totals_out.done
      /\ customer.transactions # <<>>
      /\ \E n \in Names(customer.items) : HeldAtEnd(customer.transactions, n) > 0
      /\ LastDate(customer.transactions) <= today )
    => web_out.rent - totals_out.total_rent = OpenSpanRent(customer, today)

\* the log that rents q of item n on day d1 and returns it on day d2, in
\* either order of recording
RentThenReturn(log, n, q, d1, d2) ==
    \/ log = <<Tx(d1, n, q), Tx(d2, n, -q)>>
    \/ log = <<Tx(d2, n, -q), Tx(d1, n, q)>>

\* C10: in closed-ledger mode a log that rents q of one item of rate r on day
\* d1 and returns q on day d2 >= d1 accrues (d2 - d1) * q * r; for rate 50,
\* quantity 2 and days 1 to 5 that is 400.
C10_ClosedRentOfOneRental ==
    \A n \in Names(customer.items), q \in Qtys, d1 \in Dates, d2 \in Dates :
        (q > 0 /\ d2 >= d1 /\ RentThenReturn(customer.transactions, n, q, d1, d2))
        => /\ totals_out.done =>
                totals_out.total_rent = (d2 - d1) * q * RateOf(customer.items, n)
           /\ due_out.done =>
                due_out.total_rent = (d2 - d1) * q * RateOf(customer.items, n)
           /\ (totals_out.done /\ n = "Plate" /\ q = 2 /\ d1 = 1 /\ d2 = 5)
                => totals_out.total_rent = 400

\* C10 witness: scenario A has been computed by both desktop functions.
C10_Witness ==
    /\ customer.transactions = <<Tx(1, "Plate", 2), Tx(5, "Plate", -2)>>
    /\ totals_out.done /\ due_out.done
    /\ totals_out.total_rent = 400 /\ due_out.total_rent = 400

-----------------------------------------------------------------------------
(* Balances and payments.                                                  *)

\* the rent of day t: every item pays its rate on what is held of it
DayRent(c, t) ==
    SumOver([n \in Names(c.items) |->
                Max(NetQty(c.transactions, n, t), 0) * RateOf(c.items, n)],
            Names(c.items))

\* the rent of the days from the first event up to today, or up to the last
\* event when it is dated after today
AccruedByDay(c, now) ==
    IF c.transactions = <<>> THEN 0
    ELSE LET days == FirstDate(c.transactions)
                     ..(Max(now, LastDate(c.transactions)) - 1)
         IN SumOver([t \in days |-> DayRent(c, t)], days)

\* the amounts of the approved payments
ApprovedAmounts(history) ==
    LET Approved(p) == p.status = "approved"
        chosen == SelectSeq(history, Approved)
    IN SumSeq([k \in DOMAIN chosen |-> chosen[k].amount.v])

\* C1: the balance is previous balance plus accrued rent minus the payments
\* sum, signed and not clamped: calculate_customer_balance returns
\* previous_balance + accrued rent - approved amounts, and calculate_totals
\* returns grand_total = total_rent + previous_balance - payment_received.
C1_BalanceIsSignedSum ==
    /\ web_out.done =>
         /\ web_out.rent = AccruedByDay(customer, today)
         /\ web_out.balance = customer.previous_balance.v + web_out.rent
                              - ApprovedAmounts(customer.payment_history)
    /\ totals_out.done =>
         /\ totals_out.previous_balance = previous_balance
         /\ totals_out.payment_received = payment_received
         /\ totals_out.grand_total = totals_out.total_rent + previous_balance
                                     - payment_received

\* C1 witness: both programs have returned a negative balance although rent
\* has accrued.
C1_Witness ==
    /\ web_out.done /\ web_out.rent > 0 /\ web_out.balance < 0
    /\ totals_out.done /\ totals_out.total_rent > 0 /\ totals_out.grand_total < 0

NotGated(p) == p.status \notin {"pending", "rejected"}

\* C4: in the web balance only approved payments are summed: pending and
\* rejected payments do not change calculate_customer_balance whatever their
\* amount; previous balance 1000 with payments [500 approved, 200 pending]
\* and no transaction gives 500.
C4_PendingAndRejectedNotCounted ==
    web_out.done =>
       /\ web_out.balance =
             CalculateCustomerBalance(
                [customer EXCEPT !.payment_history = SelectSeq(@, NotGated)],
                today).balance
       /\ ( /\ customer.transactions = <<>>
            /\ customer.previous_balance = Num(1000)
            /\ customer.payment_history = <<Payment(1, 500, "approved"),
                                            Payment(2, 200, "pending")>> )
          => web_out.balance = 500

\* C4 witness: scenario B has been computed.
C4_Witness ==
    /\ customer.transactions = <<>>
    /\ customer.previous_balance = Num(1000)
    /\ customer.payment_history = <<Payment(1, 500, "approved"),
                                    Payment(2, 200, "pending")>>
    /\ web_out.done /\ web_out.balance = 500

\* C7: with an empty transaction list accrued rent is 0 and the balance is
\* previous balance minus the payments sum: calculate_customer_balance
\* returns previous_balance - approved amounts, calculate_totals returns
\* total_rent 0 and grand_total = previous_balance - payment_received.
C7_NoTransactionBalance ==
    /\ (web_out.done /\ customer.transactions = <<>>) =>
          /\ web_out.rent = 0
          /\ web_out.balance = customer.previous_balance.v
                               - ApprovedAmounts(customer.payment_history)
    /\ (totals_out.done /\ transactions = <<>>) =>
          /\ totals_out.total_rent = 0
          /\ totals_out.grand_total = previous_balance - payment_received

\* C7 witness: a record without transactions, with an approved payment and a
\* payment received, has been computed by both programs.
C7_Witness ==
    /\ customer.transactions = <<>> /\ transactions = <<>>
    /\ web_out.done /\ totals_out.done
    /\ ApprovedAmounts(customer.payment_history) > 0
    /\ payment_received > 0

\* the web balance of a stored record
BalanceOf(c) == CalculateCustomerBalance(c, today).balance

\* the amounts of the payments that a step takes from pending to approved
NewlyApproved(h, h2) ==
    SumSeq([k \in DOMAIN h |->
              IF h[k].status = "pending" /\ h2[k].status = "approved"
              THEN h[k].amount.v ELSE 0])

\* C5: a payment submitted through the web form is stored as pending and
\* leaves the customer's calculate_customer_balance unchanged; the balance
\* drops by exactly the payment amount when the admin approves it and stays
\* unchanged when the admin rejects it.
C5_BalanceDropsOnApprovalOnly ==
    [][ LET h == customer.payment_history
            h2 == customer'.payment_history
        IN /\ Len(h2) # Len(h) =>
                /\ h2 = Append(h, h2[Len(h2)])
                /\ h2[Len(h2)].status = "pending"
                /\ BalanceOf(customer') = BalanceOf(customer)
           /\ Len(h2) = Len(h) =>
                BalanceOf(customer') = BalanceOf(customer) - NewlyApproved(h, h2)
           /\ (Len(h2) = Len(h) /\ \A k \in DOMAIN h : h2[k].status # "approved"
                                                    \/ h[k].status = "approved") =>
                BalanceOf(customer') = BalanceOf(customer)
      ]_vars

\* C5 witness: one payment has been approved and lowered the balance, a
\* second one is pending and has not.
C5_Witness ==
    /\ Len(customer.payment_history) = 2
    /\ customer.payment_history[1].status = "approved"
    /\ customer.payment_history[2].status = "pending"
    /\ BalanceOf(customer) = customer.previous_balance.v
                             + AccruedByDay(customer, today)
                             - customer.payment_history[1].amount.v

\* C6: a payment's status only moves pending -> approved or pending ->
\* rejected; an approved or rejected payment never changes status again,
\* whatever the customer submits and the admin approves or rejects.
C6_ApprovedAndRejectedAreTerminal ==
    [][ LET h == customer.payment_history
            h2 == customer'.payment_history
        IN \A k \in DOMAIN h :
              /\ k \in DOMAIN h2
              /\ h2[k].id = h[k].id
              /\ h[k].status \in {"approved", "rejected"} =>
                    h2[k].status = h[k].status
              /\ h[k].status = "pending" =>
                    h2[k].status \in {"pending", "approved", "rejected"}
      ]_vars

\* C6 witness: a rejected and an approved payment stand side by side after
\* the admin has used "Reject All".
C6_Witness ==
    /\ Len(customer.payment_history) = 2
    /\ customer.payment_history[1].status = "rejected"
    /\ customer.payment_history[2].status = "approved"
    /\ confirm_reject_all

-----------------------------------------------------------------------------
(* Payments without a status.                                              *)

\* the amounts of the payments that are approved or carry no status
ApprovedOrAbsentAmounts(history) ==
    LET Counted(p) == p.status \in {"approved", "absent"}
        chosen == SelectSeq(history, Counted)
    IN SumSeq([k \in DOMAIN chosen |-> chosen[k].amount.v])

\* C11: a payment whose status field is absent is counted in the payments
\* sum that reduces the balance: calculate_customer_balance returns
\* previous balance + accrued rent - the amounts of the payments that are
\* approved or have no status.
C11_AbsentStatusIsCounted ==
    web_out.done =>
        web_out.balance = customer.previous_balance.v + web_out.rent
                          - ApprovedOrAbsentAmounts(customer.payment_history)

-----------------------------------------------------------------------------
(* Held quantities.                                                        *)

NextHeld == WebBalance \/ DesktopTotals

\* the replay of the web portal and the replay of the desktop bill
SpecHeld == InitRent /\ [][NextHeld]_vars

NoUnknown(c) == \A k \in DOMAIN c.transactions : ~UnknownAt(c, k)

\* the rent of the days from the first event up to the last event
ClosedByDay(c) ==
    IF c.transactions = <<>> THEN 0
    ELSE LET days == FirstDate(c.transactions)..(LastDate(c.transactions) - 1)
         IN SumOver([t \in days |-> DayRent(c, t)], days)

\* C12: the held quantity of an item after the replay is the plain sum of
\* its signed quantities, not clamped at zero; an item held in zero or
\* negative quantity adds nothing to the rent of the interval, and the
\* computation returns (calculate_customer_balance and calculate_totals; the
\* latter's rent is stated for logs of known items, see C2).
C12_HeldIsPlainSumAndPaysWhenPositive ==
    /\ (web_out.done /\ customer.transactions # <<>>) =>
          /\ \A n \in Names(customer.items) :
                web_out.held[n] = HeldAtEnd(customer.transactions, n)
          /\ web_out.rent = AccruedByDay(customer, today)
    /\ (totals_out.done /\ customer.transactions # <<>>) =>
          /\ \A n \in Names(customer.items) :
                totals_out.held[n] = HeldAtEnd(customer.transactions, n)
          /\ NoUnknown(customer) => totals_out.total_rent = ClosedByDay(customer)

\* C12 witness: both programs have replayed a log that leaves one item held
\* in negative quantity while another item has accrued rent.
C12_Witness ==
    /\ web_out.done /\ totals_out.done
    /\ customer.transactions # <<>> /\ NoUnknown(customer)
    /\ \E n \in Names(customer.items) :
          web_out.held[n] < 0 /\ totals_out.held[n] < 0
    /\ web_out.rent > 0 /\ totals_out.total_rent > 0

-----------------------------------------------------------------------------
(* Desktop: the customer form and the payment ledger window.               *)

\* the fields of the application as save_customer_data writes them
StoredItems(its) == [k \in DOMAIN its |-> <<its[k][1], Num(its[k][2])>>]

StoredTransactions(trans) ==
    [k \in DOMAIN trans |->
        [date |-> Num(trans[k].date), item |-> trans[k].item,
         qty |-> Num(trans[k].qty), rent |-> Num(trans[k].rent)]]

\* the rows that _refresh_ledger_data puts into payment_tree: id and amount
\* of every payment whose amount float() accepts; the status is not read
LedgerRows(history) ==
    LET Readable(p) == p.amount.ok
        chosen == SelectSeq(history, Readable)
    IN [k \in DOMAIN chosen |-> [id |-> chosen[k].id, amount |-> chosen[k].amount.v]]

\* the payments that _save_payment_ledger builds from the rows: no status key
LedgerPayments(rows) ==
    [k \in DOMAIN rows |-> Payment(rows[k].id, rows[k].amount, "absent")]

\* total_received of _save_payment_ledger: every row counts
TotalReceived(rows) == SumSeq([k \in DOMAIN rows |-> rows[k].amount])

\* an id that no row of the tree and no payment of the file carries
NewPaymentId(rows, history) ==
    LET used == { rows[k].id : k \in DOMAIN rows }
                \cup { history[k].id : k \in DOMAIN history }
    IN CHOOSE i \in 1..(Cardinality(used) + 1) :
          i \notin used /\ \A j \in 1..(i - 1) : j \in used

\* open_payment_ledger with its _refresh_ledger_data: payment_received is
\* re-read from the file, the due is calculate_totals' grand_total, the tree
\* is filled from the file's payment_history
OpenPaymentLedger ==
    /\ ~ledger_window.open
    /\ payment_received' = Raw(customer.payment_received)
    /\ ledger_window' =
          [open |-> TRUE,
           current_due_amount |->
              CalculateTotals(items, transactions, previous_balance,
                              payment_received').grand_total,
           payment_tree |-> LedgerRows(customer.payment_history),
           payment_amount_entry |-> 0]
    /\ UNCHANGED <<customer, items, transactions, previous_balance, today,
                   confirm_reject_all, web_out, totals_out, due_out, bill_out,
                   customer_run, admin_run,
                   other>>

\* "Pay Full Balance": fills the amount entry with the due when it is positive
PayFullBalance ==
    /\ ledger_window.open
    /\ ledger_window' =
          IF ledger_window.current_due_amount <= 0 THEN ledger_window
          ELSE [ledger_window EXCEPT !.payment_amount_entry =
                                        ledger_window.current_due_amount]
    /\ UNCHANGED <<customer, items, transactions, previous_balance,
                   payment_received, today, confirm_reject_all, web_out,
                   totals_out, due_out, bill_out, customer_run, admin_run,
                   other>>

-----------------------------------------------------------------------------
(* The due of the dashboard and the due of the bill.                       *)

NextDue == DesktopTotals \/ DesktopDue \/ OpenPaymentLedger \/ PayFullBalance

\* the desktop with a customer loaded: bill totals, dashboard due and the
\* payment ledger window
SpecDue == InitBal /\ [][NextDue]_vars

\* C13: the display due is max(signed balance, 0) and only the dashboard
\* clamps: calculate_customer_due_from_data returns max(g, 0) for the
\* grand_total g that calculate_totals returns for the same record, while
\* the grand_total itself and the due behind "Pay Full Balance" stay signed.
C13_DueIsClampedGrandTotal ==
    /\ (due_out.done /\ totals_out.done) =>
          due_out.due = Max(totals_out.grand_total, 0)
    /\ totals_out.done =>
          totals_out.grand_total = totals_out.total_rent + previous_balance
                                   - payment_received
    /\ (ledger_window.open /\ totals_out.done) =>
          /\ ledger_window.current_due_amount = totals_out.grand_total
          /\ ledger_window.payment_amount_entry # 0 =>
                ledger_window.payment_amount_entry = totals_out.grand_total

\* C13 witness: an overpaid record shows due 0 on the dashboard while the
\* bill total and the due of the ledger window are negative.
C13_Witness ==
    /\ due_out.done /\ totals_out.done /\ ledger_window.open
    /\ totals_out.total_rent > 0
    /\ totals_out.grand_total < 0
    /\ ledger_window.current_due_amount < 0
    /\ due_out.due = 0

-----------------------------------------------------------------------------
(* Day spans.                                                              *)

\* the first k events of a replayed log
Prefix(log, k) == SubSeq(log, 1, k)

\* C14: a day span never subtracts rent.  In calculate_customer_balance the
\* span after the last event is max(0, today - last date): a last event
\* dated after today adds nothing, so the rent is the rent accrued up to the
\* last event, and otherwise the rent is no less than that.  In
\* calculate_totals every further event of the replay leaves the rent equal
\* or higher.
C14_NoSpanSubtractsRent ==
    /\ (web_out.done /\ customer.transactions # <<>>) =>
          /\ web_out.rent >= ClosedByDay(customer)
          /\ LastDate(customer.transactions) >= today =>
                web_out.rent = ClosedByDay(customer)
          /\ web_out.rent >= 0
    /\ totals_out.done =>
          /\ totals_out.total_rent >= 0
          /\ \A k \in 1..Len(totals_out.replayed) :
                ClosedLedger(items, Prefix(totals_out.replayed, k - 1)).total_rent
                <= ClosedLedger(items, Prefix(totals_out.replayed, k)).total_rent
          /\ ClosedLedger(items, totals_out.replayed).total_rent
             = totals_out.total_rent

\* C14 witness: the last event is dated after today and leaves an item held,
\* and both programs have computed a rent.
C14_Witness ==
    /\ web_out.done /\ totals_out.done
    /\ customer.transactions # <<>>
    /\ LastDate(customer.transactions) > today
    /\ \E n \in Names(customer.items) : web_out.held[n] > 0
    /\ web_out.rent > 0 /\ totals_out.total_rent > 0

\* the user types an amount into the amount entry of the ledger window
TypePaymentAmount(amount) ==
    /\ ledger_window.open
    /\ ledger_window' = [ledger_window EXCEPT !.payment_amount_entry = amount]
    /\ UNCHANGED <<customer, items, transactions, previous_balance,
                   payment_received, today, confirm_reject_all, web_out,
                   totals_out, due_out, bill_out, customer_run, admin_run,
                   other>>

\* _add_payment_entry: the amount must be positive; an amount above the due
\* asks for confirmation (proceed); the row gets a new id and no status
AddPaymentEntry(proceed) ==
    /\ ledger_window.open
    /\ Len(ledger_window.payment_tree) < MaxPay
    /\ LET amount == ledger_window.payment_amount_entry IN
       IF amount <= 0 \/ (amount > ledger_window.current_due_amount /\ ~proceed)
       THEN ledger_window' = ledger_window
       ELSE ledger_window' =
               [ledger_window EXCEPT
                  !.payment_tree =
                      Append(@, [id |-> NewPaymentId(@, customer.payment_history),
                                 amount |-> amount]),
                  !.payment_amount_entry = 0]
    /\ UNCHANGED <<customer, items, transactions, previous_balance,
                   payment_received, today, confirm_reject_all, web_out,
                   totals_out, due_out, bill_out, customer_run, admin_run,
                   other>>

\* _delete_payment_entry of the selected row k, confirmed
DeletePaymentEntry(k) ==
    /\ ledger_window.open
    /\ k \in DOMAIN ledger_window.payment_tree
    /\ ledger_window' = [ledger_window EXCEPT !.payment_tree = RemoveAt(@, k)]
    /\ UNCHANGED <<customer, items, transactions, previous_balance,
                   payment_received, today, confirm_reject_all, web_out,
                   totals_out, due_out, bill_out, customer_run, admin_run,
                   other>>

\* _save_payment_ledger: the file is read, its payment_history is replaced
\* by the rows of the tree and its payment_received by their total, the file
\* is written and the window is closed
SavePaymentLedger ==
    /\ ledger_window.open
    /\ customer' = [customer EXCEPT
                      !.payment_history = LedgerPayments(ledger_window.payment_tree),
                      !.payment_received =
                          Num(TotalReceived(ledger_window.payment_tree))]
    /\ payment_received' = TotalReceived(ledger_window.payment_tree)
    /\ ledger_window' = [ledger_window EXCEPT !.open = FALSE,
                                              !.payment_tree = <<>>,
                                              !.payment_amount_entry = 0]
    /\ UNCHANGED <<items, transactions, previous_balance, today,
                   confirm_reject_all, web_out, totals_out, due_out, bill_out,
                   customer_run, admin_run,
                   other>>

\* the user edits the "Payment Received" field of the customer form
EditPaymentReceived(r) ==
    /\ payment_received' = r
    /\ UNCHANGED <<customer, items, transactions, previous_balance, today,
                   confirm_reject_all, web_out, totals_out, due_out, aside>>

\* RentalBillApp.save_customer_data: the fields of the form are written with
\* the payment_history found in the file
SaveCustomerData ==
    /\ customer' = [previous_balance |-> Num(previous_balance),
                    payment_received |-> Num(payment_received),
                    payment_history |-> customer.payment_history,
                    items |-> StoredItems(items),
                    transactions |-> StoredTransactions(transactions)]
    /\ UNCHANGED <<items, transactions, previous_balance, payment_received,
                   today, confirm_reject_all, web_out, totals_out, due_out,
                   aside>>

\* the customer of scenario A loaded into the desktop, nothing paid yet
InitLedger ==
    /\ customer \in [previous_balance : {Num(1000)},
                     payment_received : {Num(0)},
                     items : {BothItems},
                     transactions : {<<Tx(1, "Plate", 2), Tx(5, "Plate", -2)>>},
                     payment_history : {<<>>}]
    /\ Loaded
    /\ today = 9
    /\ confirm_reject_all = FALSE
    /\ web_out = NoWeb
    /\ totals_out = NoTotals
    /\ due_out = NoDue
    /\ Idle

NextLedger ==
    \/ OpenPaymentLedger
    \/ \E amount \in Amounts : TypePaymentAmount(amount)
    \/ \E proceed \in BOOLEAN : AddPaymentEntry(proceed)
    \/ \E k \in 1..MaxPay : DeletePaymentEntry(k)
    \/ SavePaymentLedger
    \/ \E r \in Paid : EditPaymentReceived(r)
    \/ SaveCustomerData
    \/ \E amount \in Amounts : SubmitPayment(amount)
    \/ \E k \in 1..MaxPay : ApprovePayment(k)
    \/ \E k \in 1..MaxPay : RejectPayment(k)

\* one customer's file under the desktop form, the desktop payment ledger
\* and the web payment workflow
SpecLedger == InitLedger /\ [][NextLedger]_vars

\* the amounts of the payments of a history that count: approved ones and
\* those without a status (C11)
CountedAmounts(history) == ApprovedOrAbsentAmounts(history)

\* C15: payment_received of the stored record equals the sum of the amounts
\* that the record's payment_history counts, after any sequence of desktop
\* saves, ledger saves, web submissions, approvals and rejections.
C15_PaymentReceivedIsDerivable ==
    customer.payment_received.v = CountedAmounts(customer.payment_history)

-----------------------------------------------------------------------------
(* Recording transactions.                                                 *)

\* what is typed into a quantity entry, and the two actions of the form
QtyTyped == {0, 2, -1}
ActionTypes == {"Rent", "Return"}

\* the validation both desktop forms share: int(qty_str) must not be
\* negative; a "Return" negates the quantity
SignedQty(action_type, qty) == IF action_type = "Return" THEN 0 - qty ELSE qty

\* RentalBillApp.add_transaction: the event is appended and the list sorted
AddTransaction(action_type, d, item_name, qty) ==
    /\ Len(transactions) < MaxTx
    /\ item_name \in Names(items)
    /\ transactions' =
          IF qty < 0 THEN transactions
          ELSE SortByDate(Append(transactions,
                                 [date |-> d, item |-> item_name,
                                  qty |-> SignedQty(action_type, qty),
                                  rent |-> RentPrice(items, item_name)]))
    /\ UNCHANGED <<customer, items, previous_balance, payment_received, today,
                   confirm_reject_all, web_out, totals_out, due_out, aside>>

\* save_changes of RentalBillApp.edit_transaction: the event at index is
\* replaced in place
EditTransaction(index, action_type, d, item_name, qty) ==
    /\ index \in DOMAIN transactions
    /\ item_name \in Names(items)
    /\ transactions' =
          IF qty < 0 THEN transactions
          ELSE [transactions EXCEPT ![index] =
                   [date |-> d, item |-> item_name,
                    qty |-> SignedQty(action_type, qty),
                    rent |-> RentPrice(items, item_name)]]
    /\ UNCHANGED <<customer, items, previous_balance, payment_received, today,
                   confirm_reject_all, web_out, totals_out, due_out, aside>>

\* the admin's "Record Transaction" form of the web portal: an item must be
\* chosen and the quantity must not be zero
RecordTransaction(tx_item, tx_qty, tx_date) ==
    /\ Len(customer.transactions) < MaxTx
    /\ tx_item \in Names(customer.items)
    /\ customer' =
          IF tx_qty # 0
          THEN WebSave([customer EXCEPT !.transactions =
                           Append(@, WebTx(tx_date, tx_item, tx_qty))])
          ELSE customer
    /\ UNCHANGED <<items, transactions, previous_balance, payment_received,
                   today, confirm_reject_all, web_out, totals_out, due_out,
                   aside>>

\* RentalBillApp.load_customer_data of the customer's file; clear_all deletes
\* the rows of the item tree
LoadCustomerData ==
    /\ items' = RawItems(customer.items)
    /\ transactions' = LoadedTransactions(customer.transactions)
    /\ previous_balance' = Raw(customer.previous_balance)
    /\ payment_received' = Raw(customer.payment_received)
    /\ editing_item' = [editing_item EXCEPT !.row = 0]
    /\ UNCHANGED <<customer, today, confirm_reject_all, web_out, totals_out,
                   due_out, bill_out, ledger_window, customer_run, admin_run,
                   sessions, clock, session_out>>

\* a new customer with one item and no transaction, open in the desktop
InitTx ==
    /\ customer = [previous_balance |-> Num(0),
                   payment_received |-> Num(0),
                   items |-> << <<"Plate", Num(50)>> >>,
                   transactions |-> <<>>,
                   payment_history |-> <<>>]
    /\ Loaded
    /\ today = 9
    /\ confirm_reject_all = FALSE
    /\ web_out = NoWeb
    /\ totals_out = NoTotals
    /\ due_out = NoDue
    /\ Idle

NextTx ==
    \/ \E a \in ActionTypes, d \in Dates, n \in TxItems, q \in QtyTyped :
          AddTransaction(a, d, n, q)
    \/ \E k \in 1..MaxTx, a \in ActionTypes, d \in Dates, n \in TxItems,
          q \in QtyTyped : EditTransaction(k, a, d, n, q)
    \/ \E n \in TxItems, q \in QtyTyped, d \in Dates :
          RecordTransaction(n, q, d)
    \/ SaveCustomerData
    \/ LoadCustomerData

SpecTx == InitTx /\ [][NextTx]_vars

\* C16: no transaction with quantity zero is ever recorded, neither in the
\* transaction list of the desktop nor in the customer's file, whatever is
\* entered in add_transaction, edit_transaction and the web form.
C16_NoZeroQuantityRecorded ==
    /\ \A k \in DOMAIN transactions : transactions[k].qty # 0
    /\ \A k \in DOMAIN customer.transactions : customer.transactions[k].qty.v # 0

-----------------------------------------------------------------------------
(* Repeated computation.                                                   *)

\* as RecomputeBalance, but the call takes the transactions out of the
\* record it is given
RecomputeBalanceConsuming ==
    /\ web_out' = CalculateCustomerBalance(customer, today)
    /\ customer' = [customer EXCEPT !.transactions = <<>>]
    /\ UNCHANGED <<items, transactions, previous_balance, payment_received,
                   today, confirm_reject_all, totals_out, due_out, aside>>

\* the admin pages call calculate_customer_balance on a customer's record
\* time and again within one run
RecomputeBalance ==
    /\ web_out' = CalculateCustomerBalance(customer, today)
    /\ UNCHANGED <<customer, items, transactions, previous_balance,
                   payment_received, today, confirm_reject_all, totals_out,
                   due_out, aside>>

\* the desktop dashboard and its filters call
\* calculate_customer_due_from_data on a record time and again
RecomputeDue ==
    /\ due_out' = CalculateCustomerDueFromData(customer)
    /\ UNCHANGED <<customer, items, transactions, previous_balance,
                   payment_received, today, confirm_reject_all, web_out,
                   totals_out, aside>>

NextAgain == RecomputeBalance \/ RecomputeDue

SpecAgain == InitRent /\ [][NextAgain]_vars

-----------------------------------------------------------------------------
(* Desktop: the rent summary of the bill.                                  *)

\* a row of the summary table before its item has been charged
NoRow == [listed |-> FALSE, rent_price |-> 0, total_rent_item |-> 0, days |-> 0]

\* as SummaryLoop, but a row's total counts days * count, without the rate
RECURSIVE SummaryLoopNoRate(_, _, _, _, _)
SummaryLoopNoRate(sorted_transactions, i, its, current_items, item_rents) ==
    IF i > Len(sorted_transactions)
    THEN [failed |-> FALSE, rows |-> item_rents]
    ELSE LET tx == sorted_transactions[i] IN
         IF tx.item \notin DOMAIN current_items
         THEN [failed |-> TRUE, rows |-> item_rents]
         ELSE LET counts2 == [current_items EXCEPT ![tx.item] = @ + tx.qty]
                  days == IF i < Len(sorted_transactions)
                          THEN sorted_transactions[i + 1].date - tx.date ELSE 0
                  rents2 ==
                     IF i < Len(sorted_transactions)
                     THEN [n \in DOMAIN item_rents |->
                             IF counts2[n] > 0
                             THEN [listed |-> TRUE,
                                   rent_price |-> RentPrice(its, n),
                                   total_rent_item |->
                                      item_rents[n].total_rent_item
                                      + days * counts2[n],
                                   days |-> item_rents[n].days + days]
                             ELSE item_rents[n]]
                     ELSE item_rents
              IN SummaryLoopNoRate(sorted_transactions, i + 1, its, counts2,
                                   rents2)

\* the rent summary loop of create_pdf_bill, from index i on:
\* current_items[item_name] += qty raises KeyError for an item that is not
\* in self.items, which ends the bill
RECURSIVE SummaryLoop(_, _, _, _, _)
SummaryLoop(sorted_transactions, i, its, current_items, item_rents) ==
    IF i > Len(sorted_transactions)
    THEN [failed |-> FALSE, rows |-> item_rents]
    ELSE LET tx == sorted_transactions[i] IN
         IF tx.item \notin DOMAIN current_items
         THEN [failed |-> TRUE, rows |-> item_rents]
         ELSE LET counts2 == [current_items EXCEPT ![tx.item] = @ + tx.qty]
                  days == IF i < Len(sorted_transactions)
                          THEN sorted_transactions[i + 1].date - tx.date ELSE 0
                  rents2 ==
                     IF i < Len(sorted_transactions)
                     THEN [n \in DOMAIN item_rents |->
                             IF counts2[n] > 0
                             THEN [listed |-> TRUE,
                                   rent_price |-> RentPrice(its, n),
                                   total_rent_item |->
                                      item_rents[n].total_rent_item
                                      + days * counts2[n] * RentPrice(its, n),
                                   days |-> item_rents[n].days + days]
                             ELSE item_rents[n]]
                     ELSE item_rents
              IN SummaryLoop(sorted_transactions, i + 1, its, counts2, rents2)

\* the rows of the "RENT SUMMARY" table, or the failure of the bill
RentSummary(its, trans) ==
    SummaryLoop(SortByDate(trans), 1, its, [n \in Names(its) |-> 0],
                [n \in Names(its) |-> NoRow])

\* generate_bill: calculate_totals, then create_pdf_bill with the period
\* of the bill, taken from the first and the last entry of the list as it
\* stands, and the rent summary; self.transactions[0] raises IndexError on
\* an empty list, and an exception leaves no bill
CreatePdfBill ==
    /\ ~bill_out.done
    /\ items # <<>>
    /\ LET summary == RentSummary(items, transactions)
           failed == transactions = <<>> \/ summary.failed
       IN
       bill_out' = [done |-> TRUE,
                    failed |-> failed,
                    total_rent |-> CalculateTotals(items, transactions,
                                                   previous_balance,
                                                   payment_received).total_rent,
                    rows |-> IF failed THEN <<>> ELSE summary.rows,
                    start_date |-> IF failed THEN 0 ELSE transactions[1].date,
                    end_date |-> IF failed THEN 0
                                 ELSE transactions[Len(transactions)].date]
    /\ UNCHANGED <<customer, items, transactions, previous_balance,
                   payment_received, today, confirm_reject_all, web_out,
                   totals_out, due_out, ledger_window, customer_run, admin_run,
                   other>>

\* a date string that strptime rejects
BadDate == [ok |-> FALSE, v |-> 0]

BillQtys == {2, -2}

\* logs whose dates may be malformed
BillLogs ==
    UNION { [1..n -> { [Tx(1, i, q) EXCEPT !.date = d] :
                         d \in { Num(e) : e \in Dates } \cup {BadDate},
                         i \in TxItems, q \in BillQtys }] : n \in 0..MaxTx }

InitBill ==
    /\ customer \in [previous_balance : {Num(0)},
                     payment_received : {Num(0)},
                     items : RateTables,
                     transactions : BillLogs,
                     payment_history : {<<>>}]
    /\ Loaded
    /\ today \in Todays
    /\ confirm_reject_all = FALSE
    /\ web_out = NoWeb
    /\ totals_out = NoTotals
    /\ due_out = NoDue
    /\ Idle

NextBill == WebBalance \/ DesktopTotals \/ DesktopDue \/ CreatePdfBill

\* the computations and the bill on records that may hold malformed dates
\* and unknown items
SpecBill == InitBill /\ [][NextBill]_vars

WellDated(c) == \A k \in DOMAIN c.transactions : c.transactions[k].date.ok

\* the rent of one item over the days from day a to the day before day b
ItemSubtotal(c, n, a, b) ==
    SumOver([t \in a..(b - 1) |->
                Max(NetQty(c.transactions, n, t), 0) * RateOf(c.items, n)],
            a..(b - 1))

\* the sum of the "Total Rent" column of the rent summary
SummaryTotal(rows) ==
    SumOver([n \in DOMAIN rows |-> rows[n].total_rent_item], DOMAIN rows)

\* both items are held at once on some day before the last event
Overlapping(c) ==
    \E t \in FirstDate(c.transactions)..(LastDate(c.transactions) - 1) :
       \A n \in Names(c.items) : NetQty(c.transactions, n, t) > 0

\* C18: total rent is additive over items.  For a log of two items of
\* different rates the total_rent of calculate_totals is the sum over the
\* items of days * held quantity * rate over the intervals, the rent of
\* calculate_customer_balance likewise up to today, and the subtotal rows of
\* the bill's rent summary are these per-item sums and add up to total_rent.
C18_RentIsAdditiveOverItems ==
    ( /\ customer.transactions # <<>>
      /\ WellDated(customer) /\ NoUnknown(customer)
      /\ Cardinality(Names(customer.items)) = 2 )
    => LET first == FirstDate(customer.transactions)
           last == LastDate(customer.transactions)
           names == Names(customer.items)
       IN /\ totals_out.done =>
                totals_out.total_rent =
                   SumOver([n \in names |-> ItemSubtotal(customer, n, first, last)],
                           names)
          /\ web_out.done =>
                web_out.rent =
                   SumOver([n \in names |->
                              ItemSubtotal(customer, n, first, Max(today, last))],
                           names)
          /\ bill_out.done =>
                /\ ~bill_out.failed
                /\ \A n \in names :
                      bill_out.rows[n].total_rent_item
                      = ItemSubtotal(customer, n, first, last)
                /\ SummaryTotal(bill_out.rows) = bill_out.total_rent

\* C18 witness: two items of rates 50 and 30 held at once, computed by
\* both programs and billed.
C18_Witness ==
    /\ customer.transactions # <<>>
    /\ WellDated(customer) /\ NoUnknown(customer)
    /\ Cardinality(Names(customer.items)) = 2
    /\ Overlapping(customer)
    /\ totals_out.done /\ web_out.done /\ bill_out.done
    /\ bill_out.rows["Plate"].total_rent_item > 0
    /\ bill_out.rows["Jack"].total_rent_item > 0
    /\ bill_out.total_rent = bill_out.rows["Plate"].total_rent_item
                             + bill_out.rows["Jack"].total_rent_item

-----------------------------------------------------------------------------
(* Web portal: script runs that overlap.  A run reads the customer's file   *)
(* when it starts and writes it back, whole, in a button handler; nothing  *)
(* locks the file in between.                                              *)

\* a run of the customer portal starts: authenticate_customer reads the file
CustomerReads ==
    /\ ~customer_run.running
    /\ customer_run' = [running |-> TRUE, data |-> customer]
    /\ UNCHANGED <<customer, items, transactions, previous_balance,
                   payment_received, today, confirm_reject_all, web_out,
                   totals_out, due_out, bill_out, ledger_window, admin_run,
                   other>>

\* the payment form of that run: the payment is appended to the record the
\* run has read, and that record is saved
CustomerSubmits(amount) ==
    /\ customer_run.running
    /\ amount > 0
    /\ Len(customer_run.data.payment_history) < MaxPay
    /\ customer' = WebSave([customer_run.data EXCEPT !.payment_history =
                      Append(@, Payment(Len(@) + 1, amount, "pending"))])
    /\ customer_run' = NoRun
    /\ UNCHANGED <<items, transactions, previous_balance, payment_received,
                   today, confirm_reject_all, web_out, totals_out, due_out,
                   bill_out, ledger_window, admin_run,
                   other>>

\* a run of the admin portal starts: get_all_customers reads the files
AdminReads ==
    /\ ~admin_run.running
    /\ admin_run' = [running |-> TRUE, data |-> customer]
    /\ UNCHANGED <<customer, items, transactions, previous_balance,
                   payment_received, today, confirm_reject_all, web_out,
                   totals_out, due_out, bill_out, ledger_window, customer_run,
                   other>>

\* the approve or reject button of that run: the status is set on the record
\* the run has read, and that record is saved
AdminDecides(k, st) ==
    /\ admin_run.running
    /\ k \in PendingIn(admin_run.data.payment_history)
    /\ customer' = WebSave([admin_run.data EXCEPT !.payment_history =
                               SetStatus(@, {k}, st)])
    /\ admin_run' = NoRun
    /\ UNCHANGED <<items, transactions, previous_balance, payment_received,
                   today, confirm_reject_all, web_out, totals_out, due_out,
                   bill_out, ledger_window, customer_run,
                   other>>

\* "Approve All Payments" of that run
AdminApprovesAll ==
    /\ admin_run.running
    /\ PendingIn(admin_run.data.payment_history) # {}
    /\ customer' = WebSave([admin_run.data EXCEPT !.payment_history =
                               SetStatus(@, PendingIn(@), "approved")])
    /\ admin_run' = NoRun
    /\ UNCHANGED <<items, transactions, previous_balance, payment_received,
                   today, confirm_reject_all, web_out, totals_out, due_out,
                   bill_out, ledger_window, customer_run,
                   other>>

\* a run ends without a save
RunEnds ==
    /\ customer_run.running \/ admin_run.running
    /\ \/ customer_run.running /\ customer_run' = NoRun /\ admin_run' = admin_run
       \/ admin_run.running /\ admin_run' = NoRun /\ customer_run' = customer_run
    /\ UNCHANGED <<customer, items, transactions, previous_balance,
                   payment_received, today, confirm_reject_all, web_out,
                   totals_out, due_out, bill_out, ledger_window,
                   other>>

NextRace ==
    \/ CustomerReads
    \/ \E amount \in Amounts : CustomerSubmits(amount)
    \/ AdminReads
    \/ \E k \in 1..MaxPay, st \in {"approved", "rejected"} : AdminDecides(k, st)
    \/ AdminApprovesAll
    \/ RunEnds

SpecRace == InitPay /\ [][NextRace]_vars

\* C19: no update is lost when a customer's submission and an admin's
\* approval or rejection overlap: every save keeps the payments the file
\* holds, and keeps every approval and rejection the file holds.
C19_NoLostUpdate ==
    [][ LET h == customer.payment_history
            h2 == customer'.payment_history
        IN \A k \in DOMAIN h :
              /\ k \in DOMAIN h2
              /\ h2[k].id = h[k].id
              /\ h[k].status \in {"approved", "rejected"} =>
                    h2[k].status = h[k].status
      ]_vars

-----------------------------------------------------------------------------
(* Malformed dates and unknown items.                                      *)

\* the events of a stored log whose date strptime accepts
WellDatedEvents(raw) ==
    LET Good(tx) == tx.date.ok IN SelectSeq(raw, Good)

\* C20: a malformed transaction date or an unknown item never aborts a
\* computation; the bad event is skipped and the other events are still
\* processed: calculate_customer_balance and calculate_customer_due_from_data
\* compute what they compute without the malformed events, calculate_totals
\* replays every well-dated event of the record, and the rent summary of the
\* bill is produced.
C20_BadEventNeverAborts ==
    LET good == [customer EXCEPT !.transactions = WellDatedEvents(@)] IN
    /\ web_out.done =>
          /\ Len(web_out.replayed) = Len(good.transactions)
          /\ web_out.rent = CalculateCustomerBalance(good, today).rent
    /\ due_out.done =>
          due_out.total_rent = CalculateCustomerDueFromData(good).total_rent
    /\ totals_out.done =>
          Len(totals_out.replayed) = Len(good.transactions)
    /\ bill_out.done => ~bill_out.failed

-----------------------------------------------------------------------------
(* The item list of a customer.                                            *)

MaxItems == 2

\* what is typed into the name entry and the rent entry of the item form
NamesTyped == {"", "Plate", "Jack"}
RentsTyped == {0, 50}

\* RentalBillApp.add_item, the command of the "Add" button while no item is
\* being edited: the name must not be empty and the rent must be positive
AddItem(name, rent) ==
    /\ editing_item.index = 0
    /\ Len(items) < MaxItems
    /\ items' = IF name = "" \/ rent <= 0 THEN items
                ELSE Append(items, <<name, rent>>)
    /\ UNCHANGED <<customer, transactions, previous_balance, payment_received,
                   today, confirm_reject_all, web_out, totals_out, due_out,
                   aside>>

\* RentalBillApp.edit_item of the selected row: the index is kept and the
\* "Add" button becomes "Update"
EditItem(index) ==
    /\ index \in DOMAIN items
    /\ editing_item' = [index |-> index, row |-> index]
    /\ UNCHANGED <<customer, items, transactions, previous_balance,
                   payment_received, today, confirm_reject_all, web_out,
                   totals_out, due_out, bill_out, ledger_window, customer_run,
                   admin_run, sessions, clock, session_out>>

\* RentalBillApp._update_item: the entry at the kept index is replaced; an
\* index beyond the list raises before the replacement, a deleted tree row
\* raises after it, and either exception leaves the form as it is
UpdateItem(new_name, new_rent) ==
    /\ editing_item.index # 0
    /\ IF new_name = "" \/ new_rent <= 0 \/ editing_item.index > Len(items)
       THEN UNCHANGED <<items, editing_item>>
       ELSE /\ items' = [items EXCEPT ![editing_item.index] =
                                         <<new_name, new_rent>>]
            /\ editing_item' = IF editing_item.row = 0 THEN editing_item
                               ELSE NoEdit
    /\ UNCHANGED <<customer, transactions, previous_balance, payment_received,
                   today, confirm_reject_all, web_out, totals_out, due_out,
                   bill_out, ledger_window, customer_run, admin_run, sessions,
                   clock, session_out>>

\* RentalBillApp.remove_item of the selected row, confirmed
RemoveItem(index) ==
    /\ index \in DOMAIN items
    /\ items' = RemoveAt(items, index)
    /\ editing_item' =
          [editing_item EXCEPT !.row = IF @ = index THEN 0
                                       ELSE IF @ > index THEN @ - 1 ELSE @]
    /\ UNCHANGED <<customer, transactions, previous_balance, payment_received,
                   today, confirm_reject_all, web_out, totals_out, due_out,
                   bill_out, ledger_window, customer_run, admin_run, sessions,
                   clock, session_out>>

\* the admin's "Add Item" form of the web portal: a name that the item list
\* already holds is refused
WebAddItem(item_name, item_rent) ==
    /\ Len(customer.items) < MaxItems
    /\ customer' =
          IF item_name # "" /\ item_rent >= 0
             /\ item_name \notin Names(customer.items)
          THEN WebSave([customer EXCEPT !.items =
                           Append(@, <<item_name, Num(item_rent)>>)])
          ELSE customer
    /\ UNCHANGED <<items, transactions, previous_balance, payment_received,
                   today, confirm_reject_all, web_out, totals_out, due_out,
                   aside>>

\* a new customer without items, open in the desktop
InitItems ==
    /\ customer = [previous_balance |-> Num(0),
                   payment_received |-> Num(0),
                   items |-> <<>>,
                   transactions |-> <<>>,
                   payment_history |-> <<>>]
    /\ Loaded
    /\ today = 9
    /\ confirm_reject_all = FALSE
    /\ web_out = NoWeb
    /\ totals_out = NoTotals
    /\ due_out = NoDue
    /\ Idle

NextItems ==
    \/ \E name \in NamesTyped, rent \in RentsTyped : AddItem(name, rent)
    \/ \E index \in 1..MaxItems : EditItem(index)
    \/ \E name \in NamesTyped, rent \in RentsTyped : UpdateItem(name, rent)
    \/ \E index \in 1..MaxItems : RemoveItem(index)
    \/ \E name \in NamesTyped, rent \in RentsTyped : WebAddItem(name, rent)
    \/ SaveCustomerData
    \/ LoadCustomerData

SpecItems == InitItems /\ [][NextItems]_vars

\* the names of an item list are pairwise different
UniqueNames(its) ==
    \A j, k \in DOMAIN its : its[j][1] = its[k][1] => j = k

\* C21: item names are unique within a customer: after any sequence of
\* add_item, _update_item, remove_item and web add-item submissions no two
\* entries of the item list have the same name, in the desktop's list and in
\* the customer's file.
C21_ItemNamesUnique ==
    /\ UniqueNames(items)
    /\ UniqueNames(customer.items)

-----------------------------------------------------------------------------
(* Payments whose amount cannot be read.                                   *)

\* an amount key that is missing or null, and an amount that float() rejects
\* (v is what a reader that ignored the failed conversion would see)
MissingAmount == [ok |-> FALSE, v |-> 0]
TextAmount == [ok |-> FALSE, v |-> 999]

StoredAmounts == { Num(a) : a \in Amounts } \cup {MissingAmount, TextAmount}

AmountHistories ==
    UNION { { [k \in 1..n |-> [id |-> k, amount |-> f[k][1], status |-> f[k][2]]] :
                f \in [1..n -> StoredAmounts \X {"approved", "pending"}] } :
            n \in 0..MaxPay }

InitAmount ==
    /\ customer \in [previous_balance : { Num(b) : b \in Balances },
                     payment_received : {Num(0)},
                     items : {BothItems},
                     transactions : SampleLogs,
                     payment_history : AmountHistories]
    /\ Loaded
    /\ today \in Todays
    /\ confirm_reject_all = FALSE
    /\ web_out = NoWeb
    /\ totals_out = NoTotals
    /\ due_out = NoDue
    /\ Idle

\* the computations on records whose payments may have unreadable amounts
SpecAmount == InitAmount /\ [][NextCalc]_vars

\* the amounts of the approved payments whose amount is a number
ReadableApprovedAmounts(history) ==
    LET Counted(p) == p.status = "approved" /\ p.amount.ok
        chosen == SelectSeq(history, Counted)
    IN SumSeq([k \in DOMAIN chosen |-> chosen[k].amount.v])

\* C22: a payment whose amount is missing or non-numeric is skipped from the
\* payments sum and does not make the balance computation fail:
\* calculate_customer_balance returns, and what it returns is the balance of
\* the record with that payment removed, that is previous balance + accrued
\* rent - the readable approved amounts.
C22_UnreadableAmountIsSkipped ==
    web_out.done =>
       /\ \A k \in DOMAIN customer.payment_history :
             ~customer.payment_history[k].amount.ok =>
                web_out.balance =
                   CalculateCustomerBalance(
                      [customer EXCEPT !.payment_history = RemoveAt(@, k)],
                      today).balance
       /\ web_out.balance = customer.previous_balance.v
                            + AccruedByDay(customer, today)
                            - ReadableApprovedAmounts(customer.payment_history)

\* C22 witness: the balance has been computed for a history that holds an
\* approved payment of a non-numeric amount next to an approved payment of
\* 500.
C22_Witness ==
    /\ web_out.done
    /\ Len(customer.payment_history) = 2
    /\ customer.payment_history[1] =
          [id |-> 1, amount |-> TextAmount, status |-> "approved"]
    /\ customer.payment_history[2] = Payment(2, 500, "approved")
    /\ web_out.balance = customer.previous_balance.v + web_out.rent - 500

-----------------------------------------------------------------------------
(* Rates that are not numbers.                                             *)

\* a rate that is null, and a rate that is a text
NullRate == [ok |-> FALSE, v |-> 0]
TextRate == [ok |-> FALSE, v |-> 999]

\* the item lists of the stored records: the rate of "Plate" may be invalid,
\* "Jack" may be unknown or have an invalid rate
StoredRateTables ==
    { << <<"Plate", r>> >> : r \in {Num(50), NullRate, TextRate} }
    \cup { << <<"Plate", r>>, <<"Jack", q>> >> :
             r \in {Num(50), NullRate, TextRate}, q \in {Num(30), NullRate} }

\* the desktop after clear_all: no customer is loaded
Cleared ==
    /\ items = <<>>
    /\ transactions = <<>>
    /\ previous_balance = 0
    /\ payment_received = 0

InitRate ==
    /\ customer \in [previous_balance : {Num(0)},
                     payment_received : {Num(0)},
                     items : StoredRateTables,
                     transactions : TxLogs,
                     payment_history : {<<>>}]
    /\ Cleared
    /\ today = 9
    /\ confirm_reject_all = FALSE
    /\ web_out = NoWeb
    /\ totals_out = NoTotals
    /\ due_out = NoDue
    /\ Idle

NextRate == WebBalance \/ DesktopDue

\* the web balance and the dashboard due of stored records
SpecRate == InitRate /\ [][NextRate]_vars

\* the record with every rate that is not a number replaced by 0
ZeroRated(c) ==
    [c EXCEPT !.items = [k \in DOMAIN @ |-> <<@[k][1], Num(SafeFloat(@[k][2]))>>]]

\* C23: the rate lookup never errors: an item whose rate is missing or
\* invalid accrues zero rent, so that calculate_customer_balance and
\* calculate_customer_due_from_data return, with the rent of the record in
\* which that rate is 0.
C23_RateLookupNeverErrors ==
    /\ web_out.done =>
          web_out.rent = CalculateCustomerBalance(ZeroRated(customer), today).rent
    /\ due_out.done =>
          /\ ~due_out.failed
          /\ due_out.total_rent =
                CalculateCustomerDueFromData(ZeroRated(customer)).total_rent

-----------------------------------------------------------------------------
(* The order in which transactions are stored.                             *)

\* the lists that hold the entries of list s in some order
Reorderings(s) ==
    { [k \in DOMAIN s |-> s[p[k]]] :
        p \in { q \in [DOMAIN s -> DOMAIN s] :
                  \A j, k \in DOMAIN s : q[j] = q[k] => j = k } }

\* C24: accrued rent does not depend on the order in which transactions are
\* stored: every permutation of the transaction list gives the same accrued
\* rent and the same balance, in calculate_customer_balance, calculate_totals
\* and calculate_customer_due_from_data.
C24_RentIgnoresStoredOrder ==
    /\ web_out.done =>
          \A p \in Reorderings(customer.transactions) :
             LET other_order == [customer EXCEPT !.transactions = p] IN
             CalculateCustomerBalance(other_order, today) =
                [web_out EXCEPT !.replayed =
                    CalculateCustomerBalance(other_order, today).replayed]
    /\ totals_out.done =>
          \A p \in Reorderings(transactions) :
             LET again == CalculateTotals(items, p, previous_balance,
                                          payment_received)
             IN /\ again.total_rent = totals_out.total_rent
                /\ again.grand_total = totals_out.grand_total
    /\ due_out.done =>
          \A p \in Reorderings(customer.transactions) :
             CalculateCustomerDueFromData([customer EXCEPT !.transactions = p])
             = due_out

-----------------------------------------------------------------------------
(* Saving the payment ledger unchanged.                                    *)

\* C25: saving the desktop payment ledger without adding, editing or
\* deleting a payment leaves the web balance unchanged: every payment keeps
\* its id, amount and status in the stored payment_history, so
\* calculate_customer_balance on the record read back after
\* _save_payment_ledger equals its value before.
C25_LedgerSaveKeepsWebBalance ==
    [][ ( /\ ledger_window.open /\ ~ledger_window'.open
          /\ ledger_window.payment_tree = LedgerRows(customer.payment_history) )
        => /\ customer'.payment_history = customer.payment_history
           /\ BalanceOf(customer') = BalanceOf(customer)
      ]_vars

-----------------------------------------------------------------------------
(* Closed-ledger mode: where the accrual of an item ends.                  *)

\* item_rents of calculate_totals after its loop, 0 for an item without entry
ItemRents(its, trans) ==
    DesktopLoop(SortByDate(trans), 1, its, [n \in Names(its) |-> 0],
                [n \in Names(its) |-> 0]).item_rents

\* the date of the last event of an item that has events
OwnLastDate(log, name) ==
    LET own == { log[k].date : k \in { j \in DOMAIN log : log[j].item = name } }
    IN CHOOSE d \in own : \A e \in own : e <= d

\* the log without the events of other items dated after the item's own
\* last event
WithoutLaterOthers(log, name) ==
    LET Kept(tx) == tx.item = name \/ tx.date <= OwnLastDate(log, name)
    IN SelectSeq(log, Kept)

\* C26: in closed-ledger mode every item accrues on what is held of it from
\* the first event up to the date of the last event of the whole log, of any
\* item, and nothing beyond it (calculate_totals and
\* calculate_customer_due_from_data); the later events of other items leave
\* the accrual of an item that is fully returned as it is and raise the
\* accrual of an item that is still held.
C26_ClosedAccrualEndsAtLastEvent ==
    customer.transactions # <<>> =>
       LET first == FirstDate(customer.transactions)
           last == LastDate(customer.transactions)
           names == Names(customer.items)
           closed == SumOver([n \in names |->
                                ItemSubtotal(customer, n, first, last)], names)
       IN /\ due_out.done => due_out.total_rent = closed
          /\ totals_out.done =>
                /\ totals_out.total_rent = closed
                /\ \A n \in names :
                      /\ ItemRents(items, transactions)[n]
                         = ItemSubtotal(customer, n, first, last)
                      /\ (\E k \in DOMAIN transactions : transactions[k].item = n) =>
                            LET cut == ItemRents(items,
                                          WithoutLaterOthers(transactions, n))[n]
                            IN IF HeldAtEnd(customer.transactions, n) > 0
                                  /\ OwnLastDate(transactions, n) < last
                               THEN cut < ItemRents(items, transactions)[n]
                               ELSE cut = ItemRents(items, transactions)[n]

-----------------------------------------------------------------------------
(* The sign of accrued rent.                                               *)

\* rate tables of non-negative rates: an item may cost nothing
FreeItems == { << <<"Plate", Num(50)>> >>,
               << <<"Plate", Num(50)>>, <<"Jack", Num(0)>> >> }

InitSign ==
    /\ customer \in [previous_balance : {Num(0)},
                     payment_received : {Num(0)},
                     items : FreeItems,
                     transactions : TxLogs,
                     payment_history : {<<>>}]
    /\ Loaded
    /\ today \in Todays
    /\ confirm_reject_all = FALSE
    /\ web_out = NoWeb
    /\ totals_out = NoTotals
    /\ due_out = NoDue
    /\ Idle

\* the replays on logs in which returns may exceed rentals
SpecSign == InitSign /\ [][NextHeld]_vars

\* total_rent_accrued of calculate_customer_balance after the first k events
\* of its replay
WebAccruedAfter(c, k) ==
    LET rents == ItemDailyRents(c.items)
    IN WebLoop(Prefix(SortByDate(ParseTransactions(c.transactions)), k), 1,
               rents, [n \in DOMAIN rents |-> 0], 0, 0).total

\* C27: accrued rent is never negative: with non-negative rates the
\* contribution of every interval and the total are >= 0, in
\* calculate_customer_balance and calculate_totals, also when returns exceed
\* rentals.
C27_RentNeverNegative ==
    /\ web_out.done =>
          /\ web_out.rent >= 0
          /\ \A k \in 1..Len(web_out.replayed) :
                WebAccruedAfter(customer, k) - WebAccruedAfter(customer, k - 1) >= 0
          /\ web_out.rent - WebAccruedAfter(customer, Len(web_out.replayed)) >= 0
    /\ totals_out.done =>
          /\ totals_out.total_rent >= 0
          /\ \A k \in 1..Len(transactions), n \in Names(items) :
                /\ ItemRents(items, Prefix(totals_out.replayed, k))[n]
                   - ItemRents(items, Prefix(totals_out.replayed, k - 1))[n] >= 0
                /\ ItemRents(items, Prefix(totals_out.replayed, k))[n] >= 0

\* C27 witness: more of an item has been returned than was rented, another
\* event follows, and both programs have computed a rent.
C27_Witness ==
    /\ web_out.done /\ totals_out.done
    /\ Len(transactions) = 3 /\ NoUnknown(customer)
    /\ \E n \in Names(customer.items) :
          /\ NetQty(customer.transactions, n, 1) < 0
          /\ HeldAtEnd(customer.transactions, n) < 0
    /\ LastDate(customer.transactions) = 5
    /\ web_out.rent > 0 /\ totals_out.total_rent > 0

-----------------------------------------------------------------------------
(* Desktop: the order of the transaction list and the period of the bill.  *)

\* RentalBillApp.remove_transaction of the selected row, confirmed:
\* refresh_transaction_tree sorts the list
RemoveTransaction(index) ==
    /\ index \in DOMAIN transactions
    /\ transactions' = SortByDate(RemoveAt(transactions, index))
    /\ UNCHANGED <<customer, items, previous_balance, payment_received, today,
                   confirm_reject_all, web_out, totals_out, due_out, aside>>

\* what is typed into the quantity entry of the transaction form
PeriodQtys == {2}

NextPeriod ==
    \/ \E a \in ActionTypes, d \in Dates, q \in PeriodQtys :
          AddTransaction(a, d, "Plate", q)
    \/ \E k \in 1..MaxTx, a \in ActionTypes, d \in Dates, q \in PeriodQtys :
          EditTransaction(k, a, d, "Plate", q)
    \/ \E k \in 1..MaxTx : RemoveTransaction(k)
    \/ SaveCustomerData
    \/ LoadCustomerData
    \/ CreatePdfBill

\* the transaction form of the desktop, save, load and the bill
SpecPeriod == InitTx /\ [][NextPeriod]_vars

SortedByDate(trans) ==
    \A k \in 1..(Len(trans) - 1) : trans[k].date <= trans[k + 1].date

\* C28: the in-memory transaction list is sorted ascending by date after
\* every add_transaction, edit_transaction, remove_transaction and
\* load_customer_data, so that the period of a bill, taken from the first and
\* the last entry, has start date <= end date and spans all transactions.
C28_ListSortedAndPeriodSpansAll ==
    [][ /\ SortedByDate(transactions')
        /\ (~bill_out.done /\ bill_out'.done /\ ~bill_out'.failed) =>
              /\ bill_out'.start_date <= bill_out'.end_date
              /\ \A k \in DOMAIN transactions :
                    /\ bill_out'.start_date <= transactions[k].date
                    /\ transactions[k].date <= bill_out'.end_date
      ]_vars

-----------------------------------------------------------------------------
(* Web portal: sessions.  A session id is the number of the session in the  *)
(* order of creation (uuid4 never gives an id twice); time is in seconds.   *)

MaxSessions == 2

SESSION_EXPIRY_SECONDS == 86400

\* get_session writes last_accessed back when it is older than this
RefreshAfter == 300

\* the instants at which the portal is used
Instants == {0, 300, 301, 86400, 86401, 86701, 86702}

\* as GetSessionOutcome, but last_accessed is written back at every access
GetSessionAlwaysRefreshing(file, current_time) ==
    IF ~file.exists
    THEN [found |-> FALSE, file |-> file]
    ELSE IF current_time - file.last_accessed > SESSION_EXPIRY_SECONDS
    THEN [found |-> FALSE, file |-> NoFile]
    ELSE [found |-> TRUE,
          file |-> [file EXCEPT !.last_accessed = current_time]]

\* get_session on a session file: what it returns and what it leaves of the
\* file
GetSessionOutcome(file, current_time) ==
    IF ~file.exists
    THEN [found |-> FALSE, file |-> file]
    ELSE IF current_time - file.last_accessed > SESSION_EXPIRY_SECONDS
    THEN [found |-> FALSE, file |-> NoFile]
    ELSE IF current_time - file.last_accessed > RefreshAfter
    THEN [found |-> TRUE,
          file |-> [file EXCEPT !.last_accessed = current_time]]
    ELSE [found |-> TRUE, file |-> file]

\* the file of a session id; an id that was never given out has none
FileOf(session_id) ==
    IF session_id \in DOMAIN sessions THEN sessions[session_id] ELSE NoFile

\* create_session at a login
CreateSession ==
    /\ Len(sessions) < MaxSessions
    /\ sessions' = Append(sessions, [exists |-> TRUE, last_accessed |-> clock])
    /\ UNCHANGED <<customer, items, transactions, previous_balance,
                   payment_received, today, confirm_reject_all, web_out,
                   totals_out, due_out, bill_out, ledger_window, customer_run,
                   admin_run, editing_item, clock, session_out>>

\* get_session at the start of a script run
GetSession(session_id) ==
    /\ LET file == FileOf(session_id)
           outcome == GetSessionOutcome(file, clock)
       IN /\ sessions' = IF session_id \in DOMAIN sessions
                         THEN [sessions EXCEPT ![session_id] = outcome.file]
                         ELSE sessions
          /\ session_out' = [called |-> TRUE, session_id |-> session_id,
                             at |-> clock, was |-> file,
                             found |-> outcome.found,
                             last_accessed |-> outcome.file.last_accessed]
    /\ UNCHANGED <<customer, items, transactions, previous_balance,
                   payment_received, today, confirm_reject_all, web_out,
                   totals_out, due_out, bill_out, ledger_window, customer_run,
                   admin_run, editing_item, clock>>

\* delete_session at a logout
DeleteSession(session_id) ==
    /\ session_id \in DOMAIN sessions
    /\ sessions' = [sessions EXCEPT ![session_id] = NoFile]
    /\ UNCHANGED <<customer, items, transactions, previous_balance,
                   payment_received, today, confirm_reject_all, web_out,
                   totals_out, due_out, bill_out, ledger_window, customer_run,
                   admin_run, editing_item, clock, session_out>>

\* cleanup_expired_sessions: every file whose last_accessed is older than
\* the expiry is removed
CleanupExpiredSessions ==
    /\ sessions' =
          [k \in DOMAIN sessions |->
              IF sessions[k].exists
                 /\ clock - sessions[k].last_accessed > SESSION_EXPIRY_SECONDS
              THEN NoFile ELSE sessions[k]]
    /\ UNCHANGED <<customer, items, transactions, previous_balance,
                   payment_received, today, confirm_reject_all, web_out,
                   totals_out, due_out, bill_out, ledger_window, customer_run,
                   admin_run, editing_item, clock, session_out>>

\* time passes
Tick(t) ==
    /\ t > clock
    /\ clock' = t
    /\ UNCHANGED <<customer, items, transactions, previous_balance,
                   payment_received, today, confirm_reject_all, web_out,
                   totals_out, due_out, bill_out, ledger_window, customer_run,
                   admin_run, editing_item, sessions, session_out>>

NextSession ==
    \/ CreateSession
    \/ \E session_id \in 1..MaxSessions : GetSession(session_id)
    \/ \E session_id \in 1..MaxSessions : DeleteSession(session_id)
    \/ CleanupExpiredSessions
    \/ \E t \in Instants : Tick(t)

SpecSession == InitTx /\ [][NextSession]_vars

\* what the last get_session has returned, against the file it found
LastGetSessionIsRight ==
    session_out.called =>
       LET age == session_out.at - session_out.was.last_accessed
           now_file == FileOf(session_out.session_id)
       IN /\ ~session_out.was.exists => ~session_out.found
          /\ (session_out.was.exists /\ age > 86400) =>
                ~session_out.found /\ ~now_file.exists
          /\ (session_out.was.exists /\ age <= 86400) =>
                /\ session_out.found
                /\ session_out.last_accessed =
                      IF age > 300 THEN session_out.at
                      ELSE session_out.was.last_accessed
                /\ now_file.exists =>
                      now_file.last_accessed = session_out.last_accessed

\* C29: a web session expires after 24 hours without access: get_session on
\* a session whose last_accessed is more than 86400 seconds old returns None
\* and deletes the session, and a deleted session stays deleted, so every
\* later get_session for that id returns None; a session accessed within the
\* window is returned, and its last_accessed is refreshed only when more than
\* 300 seconds have passed since the stored value.
C29_SessionExpiresAfterADay ==
    [][ /\ LastGetSessionIsRight'
        /\ \A session_id \in DOMAIN sessions :
              ~sessions[session_id].exists => ~sessions'[session_id].exists
      ]_vars

\* C29 witness: a session whose last_accessed had been refreshed was found
\* expired by get_session, and a session read within 300 seconds of its
\* last_accessed is still there, unrefreshed.
C29_Witness ==
    /\ session_out.called /\ ~session_out.found
    /\ session_out.was.exists /\ session_out.was.last_accessed = 301
    /\ session_out.at = 86702
    /\ ~FileOf(session_out.session_id).exists
    /\ \E session_id \in DOMAIN sessions :
          sessions[session_id] = [exists |-> TRUE, last_accessed |-> 86401]

-----------------------------------------------------------------------------
(* Desktop: save_customer_data followed by load_customer_data.             *)

\* the payment_history found in the customer's file
RoundHistories == { <<>>, <<Payment(1, 500, "approved")>>,
                    <<Payment(1, 200, "pending"), Payment(2, 500, "absent")>> }

\* a customer with one item and no transaction, open in the desktop, whose
\* file holds payments
InitRound ==
    /\ customer \in [previous_balance : {Num(1000)},
                     payment_received : {Num(0)},
                     items : { << <<"Plate", Num(50)>> >> },
                     transactions : {<<>>},
                     payment_history : RoundHistories]
    /\ Loaded
    /\ today = 9
    /\ confirm_reject_all = FALSE
    /\ web_out = NoWeb
    /\ totals_out = NoTotals
    /\ due_out = NoDue
    /\ Idle

NextRound ==
    \/ \E d \in Dates : AddTransaction("Rent", d, "Plate", 2)
    \/ \E k \in 1..MaxTx, d \in Dates : EditTransaction(k, "Rent", d, "Plate", 2)
    \/ \E r \in Paid : EditPaymentReceived(r)
    \/ SaveCustomerData
    \/ LoadCustomerData

\* the customer form and the transaction form of the desktop, save and load
SpecRound == InitRound /\ [][NextRound]_vars

\* the step writes the fields of the application into the customer's file
SaveStep ==
    /\ customer' # customer
    /\ customer'.items = StoredItems(items)
    /\ customer'.transactions = StoredTransactions(transactions)
    /\ customer'.previous_balance = Num(previous_balance)
    /\ customer'.payment_received = Num(payment_received)
    /\ UNCHANGED <<items, transactions, previous_balance, payment_received>>

\* C30: desktop save then load is a round trip: load_customer_data of the
\* file that save_customer_data has written gives back the in-memory items,
\* transactions (date, item, quantity, rent), previous balance and payment
\* received as they were before the save, and the payment_history stored in
\* the customer's file is unchanged by the save.
C30_SaveThenLoadIsRoundTrip ==
    [][ SaveStep =>
           /\ RawItems(customer'.items) = items
           /\ LoadedTransactions(customer'.transactions) = transactions
           /\ Raw(customer'.previous_balance) = previous_balance
           /\ Raw(customer'.payment_received) = payment_received
           /\ customer'.payment_history = customer.payment_history
      ]_vars

====
